---- MODULE Spec2Model ----
(***************************************************************************)
(* A model of the mediastorage proxy: the HTTP handlers of proxy.cpp and   *)
(* delete.cpp (upload, get, delete, download-info), each a dispatch phase  *)
(* (on_request) and a completion callback (on_finished), over a storage    *)
(* client whose sessions carry groups, checker, filter, error handler and  *)
(* user flags, and a balancer that hands out replica groups.               *)
(***************************************************************************)
EXTENDS Integers, Sequences, FiniteSets, TLC

\* ------------------------------------------------------------------ bounds
MaxGroup == 3
MaxReq == 2
MaxStateNum == 1

Groups == 1..MaxGroup
Req == 1..MaxReq

\* ------------------------------------------------------- program constants
UF_EMBEDS == 1
ENOENT == 2
EIO == 5
m_die_limit == 1
DNET_FCGI_EMBED_TIMESTAMP == 1

\* ---------------------------------------------------------- small helpers
Range(s) == {s[i] : i \in 1..Len(s)}

RECURSIVE SeqOfSet(_)
\* the elements of a finite set of integers, ascending
SeqOfSet(S) ==
    IF S = {} THEN <<>>
    ELSE LET m == CHOOSE x \in S : \A y \in S : x <= y
         IN <<m>> \o SeqOfSet(S \ {m})

Reverse(s) == [i \in 1..Len(s) |-> s[Len(s) + 1 - i]]

RECURSIVE Insert(_, _)
Insert(x, s) ==
    IF s = <<>> THEN <<x>>
    ELSE IF x <= Head(s) THEN <<x>> \o s
    ELSE <<Head(s)>> \o Insert(x, Tail(s))

RECURSIVE SortAsc(_)
SortAsc(s) == IF s = <<>> THEN <<>> ELSE Insert(Head(s), SortAsc(Tail(s)))

\* a mutant of std_sort: the vector is left as it came
std_sort_none(s) == s

\* std::sort(v.begin(), v.end())
std_sort(s) == SortAsc(s)

RECURSIVE std_set_difference(_, _)
\* std::set_difference over two sorted ranges, appended to an empty vector
std_set_difference(a, b) ==
    IF a = <<>> THEN <<>>
    ELSE IF b = <<>> THEN a
    ELSE IF Head(a) < Head(b) THEN <<Head(a)>> \o std_set_difference(Tail(a), b)
    ELSE IF Head(b) < Head(a) THEN std_set_difference(a, Tail(b))
    ELSE std_set_difference(Tail(a), Tail(b))

RECURSIVE Perms(_)
\* every ordering of the elements of a finite set
Perms(S) ==
    IF S = {} THEN {<<>>}
    ELSE UNION {{<<x>> \o p : p \in Perms(S \ {x})} : x \in S}

RECURSIVE CountIf(_, _)
CountIf(s, v) ==
    IF s = <<>> THEN 0
    ELSE (IF Head(s) = v THEN 1 ELSE 0) + CountIf(Tail(s), v)

\* ------------------------------------------------------ namespace registry
\* success-copies-num of the configuration, per namespace
success_copies_num == [n \in {"default", "foo", "bar"} |->
    IF n = "default" THEN "any" ELSE IF n = "foo" THEN "quorum" ELSE "all"]

groups_count == [n \in {"default", "foo", "bar"} |->
    IF n = "default" THEN 2 ELSE 3]

\* the Basic-Auth secret of a namespace, "" when it has none
auth_key == [n \in {"default", "foo", "bar"} |-> IF n = "bar" THEN "secret" ELSE ""]

\* a mutant of result_checker_of: "quorum" is read as "any"
result_checker_of_any(scn) ==
    IF scn = "all" THEN "all" ELSE "at_least_one"

\* generate_namespaces: the checker chosen for a success-copies-num string
result_checker_of(scn) ==
    IF scn = "all" THEN "all"
    ELSE IF scn = "quorum" THEN "quorum"
    ELSE "at_least_one"

\* the namespace_t of the registry; a default-constructed one has an empty name
namespace_t(n) ==
    [name |-> n, groups_count |-> groups_count[n],
     result_checker |-> result_checker_of(success_copies_num[n]),
     auth_key |-> auth_key[n]]

EmptyNamespace ==
    [name |-> "", groups_count |-> 0, result_checker |-> "at_least_one", auth_key |-> ""]

m_namespaces == [n \in DOMAIN success_copies_num |-> namespace_t(n)]

\* ------------------------------------------------- storage-client sessions
\* a mutant of ambient_session: the session hands every entry to the
\* callbacks, whatever its status
ambient_session_all ==
    [groups |-> <<>>, checker |-> "at_least_one", filter |-> "all",
     error_handler |-> "none", user_flags |-> 0]

\* the session generate_session builds: the library's defaults (no groups, the
\* at-least-one checker, the positive filter, no user flags) and the error
\* handler it sets
ambient_session ==
    [groups |-> <<>>, checker |-> "at_least_one", filter |-> "positive",
     error_handler |-> "none", user_flags |-> 0]

set_groups(s, g) == [s EXCEPT !.groups = g]
set_checker(s, c) == [s EXCEPT !.checker = c]
set_filter(s, f) == [s EXCEPT !.filter = f]
set_error_handler(s, e) == [s EXCEPT !.error_handler = e]
set_user_flags(s, f) == [s EXCEPT !.user_flags = f]

\* a mutant of or_UF_EMBEDS: the flags are left as they were
or_UF_EMBEDS_dropped(flags) == flags

\* a | UF_EMBEDS for the one flag bit in use
or_UF_EMBEDS(flags) == IF flags % 2 = 1 THEN flags ELSE flags + UF_EMBEDS
has_UF_EMBEDS(flags) == flags % 2 = 1

\* a mutant of get_session: the ambient session itself is handed out
get_session_shared(r) == 0

\* proxy::get_session: m_elliptics_session->clone(), a session of its own for
\* the request; the value is the slot that holds the clone
get_session(r) == r

\* checkers::all, checkers::quorum, checkers::at_least_one over the final
\* status of every targeted group
checker_holds(c, statuses, total) ==
    LET success == CountIf(statuses, 0)
    IN IF c = "all" THEN success = total
       ELSE IF c = "quorum" THEN success > total \div 2
       ELSE success >= 1

\* filters::positive keeps the entries with status 0, filters::all keeps all
filter_keeps(f, entry) == IF f = "positive" THEN entry.status = 0 ELSE TRUE

statuses_of(entries) == [i \in 1..Len(entries) |-> entries[i].status]

\* the aggregate error of an operation: 0 when the checker accepts the
\* statuses, else the code of a failed group (no group at all: -ENXIO is
\* rendered as the generic -EIO)
aggregate_errors(c, entries) ==
    IF checker_holds(c, statuses_of(entries), Len(entries)) THEN {0}
    ELSE IF \A i \in 1..Len(entries) : entries[i].status = 0 THEN {0 - EIO}
    ELSE {entries[i].status : i \in {j \in 1..Len(entries) : entries[j].status # 0}}

\* ------------------------------------------------------------ stored objects
NoObj == [present |-> FALSE, content |-> <<>>, user_flags |-> 0]

Obj(content, flags) == [present |-> TRUE, content |-> content, user_flags |-> flags]

\* ------------------------------------------------------------ data container
\* data_container_t: a payload and at most one embedded timestamp
Container(data, embeds) == [data |-> data, embeds |-> embeds]

\* a mutant of pack: the payload alone, without the embed count
pack_payload(dc) == dc.data

\* data_container_t::pack: the embed count, then tag, seconds and nanoseconds of
\* each embed, then the payload
pack(dc) ==
    LET RECURSIVE emb(_)
        emb(e) == IF e = <<>> THEN <<>>
                  ELSE <<Head(e).tag, Head(e).tv_sec, Head(e).tv_nsec>> \o emb(Tail(e))
    IN <<Len(dc.embeds)>> \o emb(dc.embeds) \o dc.data

\* data_container_t::unpack: without embeds the bytes are the payload; with
\* embeds the count is read, then that many embeds, and the rest is payload.
\* ok is FALSE where the declared embeds do not fit (the decoder throws)
unpack(bytes, embeded) ==
    IF ~embeded THEN [ok |-> TRUE, dc |-> Container(bytes, <<>>)]
    ELSE IF bytes = <<>> THEN [ok |-> FALSE, dc |-> Container(<<>>, <<>>)]
    ELSE LET n == bytes[1]
         IN IF n < 0 \/ Len(bytes) < 1 + 3 * n
            THEN [ok |-> FALSE, dc |-> Container(<<>>, <<>>)]
            ELSE [ok |-> TRUE,
                  dc |-> Container(
                      SubSeq(bytes, 2 + 3 * n, Len(bytes)),
                      [i \in 1..n |-> [tag |-> bytes[3 * i - 1],
                                       tv_sec |-> bytes[3 * i],
                                       tv_nsec |-> bytes[3 * i + 1]]])]

\* dc.get<DNET_FCGI_EMBED_TIMESTAMP>(): the first timestamp embed, if any
get_timestamp(dc) ==
    LET idx == {i \in 1..Len(dc.embeds) : dc.embeds[i].tag = DNET_FCGI_EMBED_TIMESTAMP}
    IN IF idx = {} THEN <<>>
       ELSE <<dc.embeds[CHOOSE i \in idx : \A j \in idx : i <= j].tv_sec>>

\* --------------------------------------------------------- requests, replies
\* a query argument: absent, a number, or text that is no number
NoArg == [present |-> FALSE, numeric |-> TRUE, val |-> 0]
NumArg(n) == [present |-> TRUE, numeric |-> TRUE, val |-> n]
BadArg == [present |-> TRUE, numeric |-> FALSE, val |-> 0]

\* get_arg<uint64_t>: the default when the argument is absent; lexical_cast
\* throws on text that is no number
get_arg(arg, default_value) ==
    IF ~arg.present THEN [throws |-> FALSE, val |-> default_value]
    ELSE IF arg.numeric THEN [throws |-> FALSE, val |-> arg.val]
    ELSE [throws |-> TRUE, val |-> 0]

\* the query string: the items the handlers parse, and in flags the names
\* of the other items in the order they were given
NoQuery ==
    [embed |-> FALSE, embed_timestamp |-> FALSE, timestamp |-> NoArg,
     offset |-> NoArg, size |-> NoArg, prepare |-> NoArg, commit |-> NoArg,
     plain_write |-> FALSE, flags |-> <<>>]

\* url_query::has_item
has_item(query, name) == \E i \in 1..Len(query.flags) : query.flags[i] = name

\* an answer of the balancer: a list of groups, or an exception
NoGroups == [throws |-> FALSE, groups |-> <<>>]
BalancerThrows == [throws |-> TRUE, groups |-> <<>>]

\* the parts of a request the handlers read: the namespace suffix of the
\* script name (dash: the script name has a '-'; late_dash: it has none but
\* the file name or the query string has one, as in "plain-write"), the
\* group token and file name of the path, the Authorization and If-Modified-Since headers, the query
\* string and the body; state_num is the number of live connections the
\* session reports when the handler asks, sym and cache are the symmetric
\* groups and the cache groups the balancer answers with when the handler
\* asks for the groups of the path
NoIn ==
    [dash |-> FALSE, ns |-> "", slash |-> TRUE, token |-> NumArg(1),
     authorization |-> "", if_modified_since |-> <<>>, query |-> NoQuery,
     buffer |-> <<>>, state_num |-> m_die_limit,
     sym |-> NoGroups, cache |-> NoGroups, late_dash |-> FALSE]

\* the request together with the balancer's answers to it
Asked(in, sym, cache) == [in EXCEPT !.sym = sym, !.cache = cache]

Reply(code) ==
    [code |-> code, www_authenticate |-> <<>>, last_modified |-> <<>>, body |-> <<>>]

\* lookup_result::lookup_result: the entry and the port to sign the host
\* with; nothing is memoised (each boost::optional member is empty, <<>>)
lookup_result(entry, sign_port) ==
    [m_entry |-> entry, m_sign_port |-> sign_port, m_host |-> <<>>, m_port |-> <<>>,
     m_addr |-> <<>>, m_path |-> <<>>, m_full_path |-> <<>>]

\* a lookup_result_entry: the address of the node, the file and its place
LookupEntry(node, port, file, offset, size) ==
    [node |-> node, port |-> port, file |-> file, offset |-> offset, size |-> size]

\* the names of the accessors of lookup_result that memoise
Accessors == {"host", "port", "addr", "path", "full_path"}

\* a lookup_result in use: the object, what the first successful call of
\* each accessor returned, the last call (for host with what getnameinfo
\* found), and whether a call of host has failed
NoLookupResult ==
    [self |-> lookup_result(LookupEntry(0, 0, "", 0, 0), ""),
     first |-> [a \in Accessors |-> <<>>],
     last |-> [acc |-> "none", throws |-> FALSE, val |-> <<>>, resolved |-> <<>>],
     failed |-> FALSE]

NoLog == [good_groups |-> <<>>, all_groups |-> <<>>, bad_groups |-> <<>>, written |-> FALSE]

IdleReq ==
    [handler |-> "none", pc |-> "idle", in |-> NoIn, sess |-> 0,
     content |-> <<>>, replies |-> <<>>, ops |-> <<>>, statuses |-> <<>>,
     swr |-> <<>>, error |-> 0, log |-> NoLog, dns |-> <<>>, after |-> {},
     pl |-> NoLookupResult]

\* ------------------------------------------------------------------- state
VARIABLES sessions, req, store

vars == <<sessions, req, store>>

\* the keys in use: the file name alone (upload, get, the delete of
\* proxy.cpp), or the namespace and the file name (delete.cpp)
Keys == {<<n, "f">> : n \in {""} \cup DOMAIN m_namespaces}

\* no key in any group
EmptyStore == [k \in Keys |-> [g \in Groups |-> NoObj]]

\* the state after proxy::initialize, over a storage that holds one of stores
InitWith(stores) ==
    /\ sessions = [h \in 0..MaxReq |-> ambient_session]
    /\ req = [r \in Req |-> IdleReq]
    /\ store \in stores

\* requests are numbered in arrival order
Arrives(r) ==
    /\ req[r].pc = "idle"
    /\ \A q \in Req : q < r => req[q].pc # "idle"

Completed == {q \in Req : req[q].pc = "done"}

\* what one handler run leaves behind: the request's session, its replies and
\* the storage operations it issued
Ran(r, handler, in, h, s, pc, replies, ops, content) ==
    /\ sessions' = [sessions EXCEPT ![h] = s]
    /\ req' = [req EXCEPT ![r] =
           [@ EXCEPT !.handler = handler, !.in = in, !.sess = h, !.pc = pc,
                     !.replies = replies, !.ops = ops, !.content = content,
                     !.after = Completed]]

\* ------------------------------------------------------------------ balancer
\* mastermind get_metabalancer_groups(count, name): a couple of count distinct
\* groups, in the balancer's order (not sorted), or an exception
metabalancer_groups(count) ==
    {BalancerThrows} \cup
    {[throws |-> FALSE, groups |-> Reverse(SeqOfSet(S))] :
        S \in {T \in SUBSET Groups : Cardinality(T) = count}}

\* check_basic_auth: a namespace without a secret admits everyone, one with a
\* secret admits the header that carries it
check_basic_auth(name, key, authorization) == key = "" \/ authorization = key

\* ---------------------------------------------------------- name resolution
\* get_filename: the file name and the namespace of the url; "default" when
\* the url has no '-' at all; otherwise the text between the first '-' and
\* the '/' that ends the script name, which is empty when the first '-'
\* comes after that '/'
get_filename(in) ==
    <<"f", IF in.dash THEN in.ns ELSE IF in.late_dash THEN "" ELSE "default">>

\* proxy::get_file_info: the key and the registry's namespace, a
\* default-constructed namespace when the name is not registered
get_file_info(in) ==
    LET p == get_filename(in)
    IN <<p[1], IF p[2] \in DOMAIN m_namespaces THEN m_namespaces[p[2]]
               ELSE EmptyNamespace>>

\* -------------------------------------------------------------------- upload
\* a mutant of write: commit is looked for before prepare
write_commit_first(s, key, content, query) ==
    LET offset == get_arg(query.offset, 0)
        mode == IF query.commit.present THEN "write_commit"
                ELSE IF query.prepare.present THEN "write_prepare"
                ELSE IF query.plain_write \/ has_item(query, "plain-write")
                THEN "write_plain"
                ELSE "write_data"
        size == IF query.commit.present THEN get_arg(query.commit, 0)
                ELSE IF query.prepare.present THEN get_arg(query.prepare, 0)
                ELSE [throws |-> FALSE, val |-> 0]
    IN [session |-> set_error_handler(s, "remove_on_fail"),
        throws |-> offset.throws \/ size.throws,
        op |-> [op |-> mode, key |-> key, groups |-> s.groups,
                offset |-> offset.val, size |-> size.val, data |-> content,
                user_flags |-> s.user_flags]]

\* write(): the error handler, the offset and the write mode of the query
\* (plain_write is the item of that name, "plain-write" is looked for among
\* the other items)
write(s, key, content, query) ==
    LET offset == get_arg(query.offset, 0)
        mode == IF query.prepare.present THEN "write_prepare"
                ELSE IF query.commit.present THEN "write_commit"
                ELSE IF query.plain_write \/ has_item(query, "plain-write")
                THEN "write_plain"
                ELSE "write_data"
        size == IF query.prepare.present THEN get_arg(query.prepare, 0)
                ELSE IF query.commit.present THEN get_arg(query.commit, 0)
                ELSE [throws |-> FALSE, val |-> 0]
    IN [session |-> set_error_handler(s, "remove_on_fail"),
        throws |-> offset.throws \/ size.throws,
        op |-> [op |-> mode, key |-> key, groups |-> s.groups,
                offset |-> offset.val, size |-> size.val, data |-> content,
                user_flags |-> s.user_flags]]

\* a mutant of upload_die_check: the live-connection check is dropped
upload_die_check_off(n) == FALSE

\* req_upload::on_request: m_session->state_num() < server()->die_limit()
upload_die_check(n) == n < m_die_limit

\* proxy::req_upload::on_request
req_upload_on_request(r, in, bal) ==
    /\ Arrives(r)
    /\ LET h == get_session(r)
           s0 == sessions[0]
           ns == get_file_info(in)[2]
           query == in.query
           embed == query.embed \/ query.embed_timestamp
           ts == get_arg(query.timestamp, 0)
       IN IF ns.name = ""
          THEN /\ bal = BalancerThrows
               /\ Ran(r, "upload", in, h, s0, "done", <<Reply(400)>>, <<>>, <<>>)
          ELSE
          LET s1 == set_checker(s0, ns.result_checker)
          IN /\ bal \in metabalancer_groups(ns.groups_count)
             /\ IF bal.throws
                THEN Ran(r, "upload", in, h, s1, "done", <<Reply(500)>>, <<>>, <<>>)
                ELSE
                LET s2 == set_groups(s1, bal.groups)
                IN IF upload_die_check(in.state_num) \/ (embed /\ ts.throws)
                   THEN Ran(r, "upload", in, h, s2, "done", <<Reply(500)>>, <<>>, <<>>)
                   ELSE
                   LET dc == Container(in.buffer,
                                 IF embed
                                 THEN <<[tag |-> DNET_FCGI_EMBED_TIMESTAMP,
                                         tv_sec |-> ts.val, tv_nsec |-> 0]>>
                                 ELSE <<>>)
                       s3 == IF Len(dc.embeds) # 0
                             THEN set_user_flags(s2, or_UF_EMBEDS(s2.user_flags))
                             ELSE s2
                       m_content == pack(dc)
                       w == write(s3, <<"", get_file_info(in)[1]>>, m_content, query)
                   IN IF w.throws
                      THEN Ran(r, "upload", in, h, w.session, "done",
                               <<Reply(500)>>, <<>>, m_content)
                      ELSE Ran(r, "upload", in, h, w.session, "dispatched",
                               <<>>, <<w.op>>, m_content)
    /\ UNCHANGED store

\* the object a write leaves in a group that accepted it
written_object(old, op) == Obj(op.data, op.user_flags)

\* the groups of a result sequence
groups_of(entries) == [i \in 1..Len(entries) |-> entries[i].group]

\* the entries a filter lets through, in order
RECURSIVE filtered(_, _)
filtered(f, entries) ==
    IF entries = <<>> THEN <<>>
    ELSE (IF filter_keeps(f, Head(entries)) THEN <<Head(entries)>> ELSE <<>>)
         \o filtered(f, Tail(entries))

\* lookup_result::addr and full_path of a write entry: the node and the file
\* of the entry's group
complete_of(entry) == <<entry.group, entry.group, entry.group, entry.status>>

\* req_upload::on_finished: 500 when the operation reports an error, else 200
upload_finish_code(error) == IF error # 0 THEN 500 ELSE 200

\* the XML document of a successful upload: groups, size, the least group of
\* the key, one <complete> per result entry, and <written>
upload_body(s, content, swr) ==
    <<"post", Len(swr), Len(content),
      CHOOSE g \in Range(s.groups) : \A k \in Range(s.groups) : g <= k,
      [i \in 1..Len(swr) |-> complete_of(swr[i])],
      Cardinality({i \in 1..Len(swr) : swr[i].status = 0})>>

\* the orders in which the answers of n groups can arrive
Arrivals == [n \in 0..(MaxGroup + 1) |-> Perms(1..n)]

\* the outcome of a write on each group's node: success or an i/o error
WriteStatuses == [Groups -> {0, 0 - EIO}]

\* the final status of every targeted group
statuses_on(groups, st) == [g \in Range(groups) |-> st[g]]

\* the final results of an operation over groups: one entry per targeted
\* group, in arrival order arr, with the status st of the group's node
results(groups, arr, st) ==
    [i \in 1..Len(groups) |-> [group |-> groups[arr[i]], status |-> st[groups[arr[i]]]]]

\* proxy::req_upload::on_finished, on the results the storage client delivers:
\* entries are the final results of all targeted groups, error the verdict of
\* the session's checker on them
req_upload_on_finished(r, arr, st) ==
    /\ req[r].pc = "dispatched"
    /\ req[r].handler = "upload"
    /\ arr \in Arrivals[Len(sessions[req[r].sess].groups)]
    /\ LET s == sessions[req[r].sess]
           op == req[r].ops[1]
           entries == results(s.groups, arr, st)
           swr == filtered(s.filter, entries)
           good_groups == groups_of(swr)
           ok == {g \in Range(s.groups) : st[g] = 0}
       IN \E error \in aggregate_errors(s.checker, entries) :
          /\ store' = [store EXCEPT ![op.key] = [g \in Groups |->
                 IF g \notin ok THEN @[g]
                 ELSE IF error # 0 /\ s.error_handler = "remove_on_fail" THEN NoObj
                 ELSE written_object(@[g], op)]]
          /\ IF error # 0
             THEN LET all_sorted == std_sort(s.groups)
                      good_sorted == std_sort(good_groups)
                      bad_groups == std_set_difference(all_sorted, good_sorted)
                  IN req' = [req EXCEPT ![r] =
                         [@ EXCEPT !.pc = "done", !.statuses = statuses_on(s.groups, st), !.swr = swr,
                                   !.error = error,
                                   !.replies = @ \o <<Reply(upload_finish_code(error))>>,
                                   !.log = [good_groups |-> good_sorted,
                                            all_groups |-> all_sorted,
                                            bad_groups |-> bad_groups,
                                            written |-> TRUE]]]
             ELSE req' = [req EXCEPT ![r] =
                      [@ EXCEPT !.pc = "done", !.statuses = statuses_on(s.groups, st), !.swr = swr,
                                   !.error = error,
                                !.replies = @ \o
                                    <<[Reply(upload_finish_code(error)) EXCEPT
                                         !.body = upload_body(s, req[r].content, swr)]>>]]
    /\ UNCHANGED sessions

AllArrivals == UNION {Arrivals[n] : n \in DOMAIN Arrivals}

\* the live-connection counts a session can report
StateNums == 0..MaxStateNum

\* the uploads explored: every namespace of the registry, one that is not
\* registered and an empty one, with and without credentials
UploadIn ==
    {[NoIn EXCEPT !.buffer = <<7>>, !.state_num = k] : k \in StateNums} \cup
    {[NoIn EXCEPT !.dash = TRUE, !.ns = n, !.buffer = <<7>>] : n \in {"nope", ""}} \cup
    {[NoIn EXCEPT !.late_dash = TRUE, !.buffer = <<7>>,
                  !.query = [NoQuery EXCEPT !.plain_write = TRUE]]} \cup
    {[NoIn EXCEPT !.dash = TRUE, !.ns = "foo", !.buffer = <<7>>, !.state_num = k] :
        k \in StateNums} \cup
    {[NoIn EXCEPT !.dash = TRUE, !.ns = "bar", !.authorization = a,
                  !.buffer = <<7>>, !.state_num = k] :
        a \in {"", "secret"}, k \in StateNums}

UploadBalancer ==
    UNION {metabalancer_groups(groups_count[n]) : n \in DOMAIN groups_count}

NextUpload ==
    \/ \E r \in Req, in \in UploadIn, bal \in UploadBalancer :
           req_upload_on_request(r, in, bal)
    \/ \E r \in Req, arr \in AllArrivals, st \in WriteStatuses :
           req_upload_on_finished(r, arr, st)

SpecUpload == InitWith({EmptyStore}) /\ [][NextUpload]_vars

\* -------------------------------------------------------------------- delete
\* mastermind get_symmetric_groups(group): nothing, or the group and the
\* group coupled with it; an exception when the balancer cannot answer
symmetric_groups(group) ==
    {BalancerThrows, NoGroups,
     [throws |-> FALSE, groups |-> <<group, (group % MaxGroup) + 1>>]}

\* mastermind get_cache_groups(filename): the cache groups that hold the file
cache_groups == {NoGroups, [throws |-> FALSE, groups |-> <<1>>]}

\* the balancer's answer for the group token and the file name of a path:
\* lexical_cast<int> of the token, then the symmetric groups followed by the
\* cache groups; throws when the token is no number or the balancer throws
path_groups(token, sym, cache) ==
    IF ~token.numeric \/ sym.throws \/ cache.throws THEN BalancerThrows
    ELSE [throws |-> FALSE, groups |-> sym.groups \o cache.groups]

\* proxy::get_groups(group, filename) as delete.cpp calls it
get_groups(token, sym, cache) == path_groups(token, sym, cache)

\* proxy::prepare_session(req): a clone of the ambient session with the
\* groups of the path; a failure to determine them is logged and the session
\* keeps the groups it was cloned with
prepare_session(s0, in, sym, cache) ==
    LET g == path_groups(in.token, sym, cache)
    IN IF g.throws THEN s0 ELSE set_groups(s0, g.groups)

\* the 401 of a failed Basic-Auth check
Unauthorized(name) == [Reply(401) EXCEPT !.www_authenticate = <<"Basic realm", name>>]

RemoveOp(key, s) == [op |-> "remove", key |-> key, groups |-> s.groups]

\* req_delete::on_request: session.state_num() < server()->die_limit()
delete_die_check(n) == n < m_die_limit

\* proxy::req_delete::on_request of delete.cpp. The 401 branch does not
\* return: the handler goes on after the reply.
req_delete_on_request(r, in, sym, cache) ==
    /\ Arrives(r)
    /\ LET ns == get_file_info(in)[2]
           h == get_session(r)
           s0 == sessions[0]
       IN IF ns.name = ""
          THEN /\ sym = NoGroups /\ cache = NoGroups
               /\ Ran(r, "delete", Asked(in, sym, cache), 0, s0, "done", <<Reply(400)>>, <<>>, <<>>)
          ELSE
          LET sent == IF ~check_basic_auth(ns.name, ns.auth_key, in.authorization)
                      THEN <<Unauthorized(ns.name)>> ELSE <<>>
          IN IF ~in.slash
             THEN /\ sym = NoGroups /\ cache = NoGroups
                  /\ Ran(r, "delete", Asked(in, sym, cache), h, s0, "done", sent \o <<Reply(400)>>, <<>>, <<>>)
             ELSE
             LET g == get_groups(in.token, sym, cache)
             IN /\ IF in.token.numeric THEN sym \in symmetric_groups(in.token.val)
                   ELSE sym = NoGroups /\ cache = NoGroups
                /\ IF g.throws
                   THEN Ran(r, "delete", Asked(in, sym, cache), h, s0, "done", sent \o <<Reply(400)>>,
                            <<>>, <<>>)
                   ELSE
                   LET s1 == set_groups(s0, g.groups)
                       key == <<ns.name, "f">>
                   IN IF s1.groups = <<>>
                      THEN Ran(r, "delete", Asked(in, sym, cache), h, s1, "done", sent \o <<Reply(404)>>,
                               <<>>, <<>>)
                      ELSE IF delete_die_check(in.state_num)
                      THEN Ran(r, "delete", Asked(in, sym, cache), h, s1, "done", sent \o <<Reply(500)>>,
                               <<>>, <<>>)
                      ELSE Ran(r, "delete", Asked(in, sym, cache), h, set_filter(s1, "all"), "dispatched",
                               sent, <<RemoveOp(key, s1)>>, <<>>)
    /\ UNCHANGED store

\* proxy::req_delete::on_request of proxy.cpp: no namespace, no credentials
req_delete_on_request_proxy(r, in, sym, cache) ==
    /\ Arrives(r)
    /\ IF in.token.numeric THEN sym \in symmetric_groups(in.token.val)
       ELSE sym = NoGroups /\ cache = NoGroups
    /\ LET h == get_session(r)
           s1 == prepare_session(sessions[0], in, sym, cache)
           key == <<"", "f">>
       IN IF s1.groups = <<>>
          THEN Ran(r, "delete_proxy", Asked(in, sym, cache), h, s1, "done", <<Reply(404)>>, <<>>, <<>>)
          ELSE IF delete_die_check(in.state_num)
          THEN Ran(r, "delete_proxy", Asked(in, sym, cache), h, s1, "done", <<Reply(500)>>, <<>>, <<>>)
          ELSE Ran(r, "delete_proxy", Asked(in, sym, cache), h, set_filter(s1, "all"), "dispatched",
                   <<>>, <<RemoveOp(key, s1)>>, <<>>)
    /\ UNCHANGED store

\* proxy::get_namespace(url, "/delete"): the registry's namespace of the url;
\* throws when there is none
get_namespace(in) ==
    LET ns == get_file_info(in)[2]
    IN [throws |-> ns.name = "", ns |-> ns]

\* proxy::prepare_session(url, ns): as prepare_session(req), for the key of
\* the namespace
prepare_session_ns(s0, in, sym, cache) == prepare_session(s0, in, sym, cache)

\* proxy::req_delete::on_request with get_namespace: the 401 branch returns
req_delete_on_request_ns(r, in, sym, cache) ==
    /\ Arrives(r)
    /\ LET n == get_namespace(in)
           ns == n.ns
           h == get_session(r)
       IN IF n.throws
          THEN /\ sym = NoGroups /\ cache = NoGroups
               /\ Ran(r, "delete_ns", Asked(in, sym, cache), 0, sessions[0], "done", <<Reply(400)>>,
                      <<>>, <<>>)
          ELSE IF ~check_basic_auth(ns.name, ns.auth_key, in.authorization)
          THEN /\ sym = NoGroups /\ cache = NoGroups
               /\ Ran(r, "delete_ns", Asked(in, sym, cache), 0, sessions[0], "done",
                      <<Unauthorized(ns.name)>>, <<>>, <<>>)
          ELSE
          LET s1 == prepare_session_ns(sessions[0], in, sym, cache)
              key == <<ns.name, "f">>
          IN /\ IF in.token.numeric THEN sym \in symmetric_groups(in.token.val)
                ELSE sym = NoGroups /\ cache = NoGroups
             /\ IF delete_die_check(in.state_num)
                THEN Ran(r, "delete_ns", Asked(in, sym, cache), h, s1, "done", <<Reply(500)>>, <<>>, <<>>)
                ELSE Ran(r, "delete_ns", Asked(in, sym, cache), h, set_filter(s1, "all"), "dispatched",
                         <<>>, <<RemoveOp(key, s1)>>, <<>>)
    /\ UNCHANGED store

DeleteHandlers == {"delete", "delete_proxy", "delete_ns"}

\* the state of each group's node when an operation reaches it: it answers
\* (0) or fails with an i/o error
NodeStatuses == [Groups -> {0, 0 - EIO}]

\* the status of a remove, read or lookup of key on the node of group g
status_on(key, g, st) ==
    IF st[g] # 0 THEN st[g]
    ELSE IF store[key][g].present THEN 0
    ELSE 0 - ENOENT

\* a mutant of delete_finish_code: every error is a 500
delete_finish_code_500(error) == IF error # 0 THEN 500 ELSE 200

\* req_delete::on_finished: 404 for -ENOENT, 500 for another error, else 200
delete_finish_code(error) ==
    IF error # 0 THEN (IF error = 0 - ENOENT THEN 404 ELSE 500) ELSE 200

\* proxy::req_delete::on_finished (the same in the three versions), on the
\* results of the remove: every targeted group answers
req_delete_on_finished(r, st) ==
    /\ req[r].pc = "dispatched"
    /\ req[r].handler \in DeleteHandlers
    /\ LET s == sessions[req[r].sess]
           op == req[r].ops[1]
           status == [g \in Groups |-> status_on(op.key, g, st)]
           entries == results(op.groups, [i \in 1..Len(op.groups) |-> i], status)
       IN \E error \in aggregate_errors(s.checker, entries) :
          /\ store' = [store EXCEPT ![op.key] = [g \in Groups |->
                 IF g \in Range(op.groups) /\ status[g] = 0 THEN NoObj ELSE @[g]]]
          /\ req' = [req EXCEPT ![r] =
                 [@ EXCEPT !.pc = "done",
                           !.statuses = statuses_on(op.groups, status),
                           !.error = error,
                           !.replies = @ \o <<Reply(delete_finish_code(error))>>]]
    /\ UNCHANGED sessions

\* the deletes explored: unregistered and registered namespaces, with the
\* secret, without it and with a wrong one, paths without a group, with a
\* group that is no number and with a group
DeleteIn ==
    {[NoIn EXCEPT !.dash = TRUE, !.ns = "nope"]} \cup
    {[NoIn EXCEPT !.state_num = k] : k \in StateNums} \cup
    {[NoIn EXCEPT !.dash = TRUE, !.ns = "bar", !.authorization = a] :
        a \in {"", "secret", "wrong"}} \cup
    {[NoIn EXCEPT !.dash = TRUE, !.ns = "bar", !.authorization = a, !.state_num = 0] :
        a \in {"", "secret"}} \cup
    {[NoIn EXCEPT !.dash = TRUE, !.ns = "bar", !.authorization = a, !.token = BadArg] :
        a \in {"", "secret"}} \cup
    {[NoIn EXCEPT !.dash = TRUE, !.ns = "bar", !.authorization = a, !.slash = FALSE] :
        a \in {"", "secret"}}

SymOutcomes == UNION {symmetric_groups(g) : g \in Groups}

\* the node failures explored for removes, reads and lookups: none, the node
\* of group 1, every node
FailurePatterns ==
    {[g \in Groups |-> 0], [g \in Groups |-> IF g = 1 THEN 0 - EIO ELSE 0],
     [g \in Groups |-> 0 - EIO]}

\* the key of namespace n (the bare file name for ""), present in the groups S
StoreWith(n, S) ==
    [k \in Keys |-> [g \in Groups |->
        IF k = <<n, "f">> /\ g \in S THEN Obj(<<0, 7>>, 0) ELSE NoObj]]

DeleteStores == {StoreWith(n, S) : n \in {"default", "bar"}, S \in {{1}, {1, 2}}}

NextDelete ==
    \/ \E r \in Req, in \in DeleteIn, sym \in SymOutcomes, cache \in cache_groups :
           req_delete_on_request(r, in, sym, cache)
    \/ \E r \in Req, in \in DeleteIn, sym \in SymOutcomes, cache \in cache_groups :
           req_delete_on_request_ns(r, in, sym, cache)
    \/ \E r \in Req, st \in FailurePatterns : req_delete_on_finished(r, st)

SpecDelete == InitWith(DeleteStores) /\ [][NextDelete]_vars

\* ----------------------------------------------------------------------- get
\* strftime("%a, %d %b %Y %T %Z") of gmtime(t), t seconds since the epoch:
\* the day of the week, day, month, year, hours, minutes and seconds
http_date(t) ==
    LET days == t \div 86400
        secs == t % 86400
        z == days + 719468
        era == z \div 146097
        doe == z - era * 146097
        yoe == (doe - doe \div 1460 + doe \div 36524 - doe \div 146096) \div 365
        doy == doe - (365 * yoe + yoe \div 4 - yoe \div 100)
        mp == (5 * doy + 2) \div 153
        d == doy - (153 * mp + 2) \div 5 + 1
        m == IF mp < 10 THEN mp + 3 ELSE mp - 9
        y == yoe + era * 400 + (IF m <= 2 THEN 1 ELSE 0)
    IN <<(days + 4) % 7, d, m, y, secs \div 3600, (secs % 3600) \div 60, secs % 60>>

ReadOp(key, s, offset, size) ==
    [op |-> "read", key |-> key, groups |-> s.groups, offset |-> offset, size |-> size]

\* proxy::req_get::on_request
req_get_on_request(r, in, sym, cache) ==
    /\ Arrives(r)
    /\ IF in.token.numeric THEN sym \in symmetric_groups(in.token.val)
       ELSE sym = NoGroups /\ cache = NoGroups
    /\ LET h == get_session(r)
           s1 == prepare_session(sessions[0], in, sym, cache)
           offset == get_arg(in.query.offset, 0)
           size == get_arg(in.query.size, 0)
       IN IF s1.groups = <<>>
          THEN Ran(r, "get", Asked(in, sym, cache), h, s1, "done", <<Reply(404)>>, <<>>, <<>>)
          ELSE IF offset.throws \/ size.throws
          THEN Ran(r, "get", Asked(in, sym, cache), h, s1, "done", <<Reply(500)>>, <<>>, <<>>)
          ELSE Ran(r, "get", Asked(in, sym, cache), h, s1, "dispatched", <<>>,
                   <<ReadOp(<<"", "f">>, s1, offset.val, size.val)>>, <<>>)
    /\ UNCHANGED store

\* the groups a read or a lookup asks, one after the other in the order arr,
\* until one of them answers with status 0
RECURSIVE tried(_)
tried(entries) ==
    IF entries = <<>> THEN <<>>
    ELSE IF Head(entries).status = 0 THEN <<Head(entries)>>
    ELSE <<Head(entries)>> \o tried(Tail(entries))

\* the bytes a read of size bytes at offset returns (size 0: to the end)
read_range(content, offset, size) ==
    SubSeq(content, offset + 1,
           IF size = 0 \/ offset + size > Len(content) THEN Len(content)
           ELSE offset + size)

\* a mutant of get_embeded: the flag the storage returns is not looked at
get_embeded_query(query, user_flags) == query.embed \/ query.embed_timestamp

\* req_get::on_finished: the embed flags of the query, or the user flag of
\* the result
get_embeded(query, user_flags) ==
    query.embed \/ query.embed_timestamp \/ has_UF_EMBEDS(user_flags)

\* a mutant of get_finish_code: every error is a 500
get_finish_code_500(error) == 500

\* req_get::on_finished: 404 for -ENOENT, 500 for another error
get_finish_code(error) == IF error = 0 - ENOENT THEN 404 ELSE 500

\* proxy::req_get::on_finished, on the result of the read
req_get_on_finished(r, arr, st) ==
    /\ req[r].pc = "dispatched"
    /\ req[r].handler = "get"
    /\ arr \in Arrivals[Len(req[r].ops[1].groups)]
    /\ LET s == sessions[req[r].sess]
           op == req[r].ops[1]
           status == [g \in Groups |-> status_on(op.key, g, st)]
           entries == tried(results(op.groups, arr, status))
           srr == filtered(s.filter, entries)
           Done(error, swr, reply) ==
               req' = [req EXCEPT ![r] =
                   [@ EXCEPT !.pc = "done", !.statuses = statuses_on(groups_of(entries), status),
                             !.error = error, !.swr = swr,
                             !.replies = @ \o <<reply>>]]
       IN \E error \in aggregate_errors(s.checker, entries) :
          IF error # 0
          THEN Done(error, <<>>, Reply(get_finish_code(error)))
          ELSE
          LET obj == store[op.key][srr[1].group]
              rr == [group |-> srr[1].group, status |-> 0,
                     file |-> read_range(obj.content, op.offset, op.size),
                     user_flags |-> obj.user_flags, stored |-> obj.content]
              embeded == get_embeded(req[r].in.query, rr.user_flags)
              u == unpack(rr.file, embeded)
              ts == get_timestamp(u.dc)
          IN IF ~u.ok THEN Done(0, <<rr>>, Reply(500))
             ELSE IF ts # <<>> /\ req[r].in.if_modified_since = http_date(ts[1])
             THEN Done(0, <<rr>>, Reply(304))
             ELSE Done(0, <<rr>>,
                       [Reply(200) EXCEPT
                          !.last_modified = IF ts # <<>> THEN http_date(ts[1]) ELSE <<>>,
                          !.body = u.dc.data])
    /\ UNCHANGED <<sessions, store>>

\* ------------------------------------------------------------- download-info
LookupOp(key, s) == [op |-> "lookup", key |-> key, groups |-> s.groups]

\* proxy::req_download_info::on_request
req_download_info_on_request(r, in, sym, cache) ==
    /\ Arrives(r)
    /\ IF in.token.numeric THEN sym \in symmetric_groups(in.token.val)
       ELSE sym = NoGroups /\ cache = NoGroups
    /\ LET h == get_session(r)
           s1 == prepare_session(sessions[0], in, sym, cache)
       IN IF s1.groups = <<>>
          THEN Ran(r, "download_info", Asked(in, sym, cache), h, s1, "done", <<Reply(404)>>, <<>>, <<>>)
          ELSE Ran(r, "download_info", Asked(in, sym, cache), h, set_filter(s1, "all"), "dispatched",
                   <<>>, <<LookupOp(<<"", "f">>, s1)>>, <<>>)
    /\ UNCHANGED store

\* a mutant of host: the numeric address where the reverse lookup fails
host_or_addr(entry, dns) ==
    [throws |-> FALSE,
     val |-> IF dns[entry.group] THEN <<"host", entry.group>> ELSE <<"addr", entry.group>>]

\* lookup_result::host: the name getnameinfo finds for the node of the
\* entry; throws when the reverse lookup fails
host(entry, dns) ==
    [throws |-> ~dns[entry.group], val |-> <<"host", entry.group>>]

\* lookup_result::path: file path, offset and size of the entry
path(entry) == <<"path", entry.group>>

\* a mutant of first_without_error: the first entry, whatever its status
first_entry(slr) == IF slr = <<>> THEN 0 ELSE 1

\* the scan of req_download_info::on_finished: the index of the first entry
\* without an error, 0 when there is none
first_without_error(slr) ==
    LET good == {i \in 1..Len(slr) : slr[i].status = 0}
    IN IF good = {} THEN 0 ELSE CHOOSE i \in good : \A j \in good : i <= j

\* the reverse lookups that succeed, by the group of the node
DnsOutcomes == [Groups -> BOOLEAN]

\* proxy::req_download_info::on_finished, on the results of the lookup
req_download_info_on_finished(r, arr, st, dns) ==
    /\ req[r].pc = "dispatched"
    /\ req[r].handler = "download_info"
    /\ arr \in Arrivals[Len(req[r].ops[1].groups)]
    /\ LET s == sessions[req[r].sess]
           op == req[r].ops[1]
           status == [g \in Groups |-> status_on(op.key, g, st)]
           entries == tried(results(op.groups, arr, status))
           slr == filtered(s.filter, entries)
           Done(error, reply) ==
               req' = [req EXCEPT ![r] =
                   [@ EXCEPT !.pc = "done", !.statuses = statuses_on(groups_of(entries), status),
                             !.error = error, !.swr = slr, !.dns = dns,
                             !.replies = @ \o <<reply>>]]
       IN \E error \in aggregate_errors(s.checker, entries) :
          IF error # 0
          THEN Done(error, Reply(IF error = 0 - ENOENT THEN 404 ELSE 500))
          ELSE
          LET i == first_without_error(slr)
          IN IF i = 0 THEN Done(0, Reply(503))
             ELSE IF host(slr[i], dns).throws THEN Done(0, Reply(500))
             ELSE Done(0, [Reply(200) EXCEPT
                             !.body = <<"download-info", host(slr[i], dns).val,
                                        path(slr[i]), "-1">>])
    /\ UNCHANGED <<sessions, store>>

\* ------------------------------------------------------------ lookup_result
\* a mutant of lookup_result_host: the name is resolved on every call
lookup_result_host_fresh(self, resolved) ==
    IF resolved = <<>> THEN [self |-> self, throws |-> TRUE, val |-> <<>>]
    ELSE LET v == resolved \o (IF self.m_sign_port # "" THEN <<":", self.m_sign_port>>
                               ELSE <<>>)
         IN [self |-> [self EXCEPT !.m_host = <<v>>], throws |-> FALSE, val |-> v]

\* lookup_result::host: the memoised value, or the name getnameinfo finds
\* now (resolved; <<>> when it fails, and the call throws), followed by ':'
\* and the sign port when there is one
lookup_result_host(self, resolved) ==
    IF self.m_host # <<>> THEN [self |-> self, throws |-> FALSE, val |-> self.m_host[1]]
    ELSE IF resolved = <<>> THEN [self |-> self, throws |-> TRUE, val |-> <<>>]
    ELSE LET v == resolved \o (IF self.m_sign_port # "" THEN <<":", self.m_sign_port>>
                               ELSE <<>>)
         IN [self |-> [self EXCEPT !.m_host = <<v>>], throws |-> FALSE, val |-> v]

\* lookup_result::port: the port of the node's address
lookup_result_port(self) ==
    IF self.m_port # <<>> THEN [self |-> self, throws |-> FALSE, val |-> self.m_port[1]]
    ELSE LET v == self.m_entry.port
         IN [self |-> [self EXCEPT !.m_port = <<v>>], throws |-> FALSE, val |-> v]

\* lookup_result::addr: the node's address as text, address:port
lookup_result_addr(self) ==
    IF self.m_addr # <<>> THEN [self |-> self, throws |-> FALSE, val |-> self.m_addr[1]]
    ELSE LET v == <<self.m_entry.node, ":", self.m_entry.port>>
         IN [self |-> [self EXCEPT !.m_addr = <<v>>], throws |-> FALSE, val |-> v]

\* lookup_result::path: file path, offset and size, with ':' between them
lookup_result_path(self) ==
    IF self.m_path # <<>> THEN [self |-> self, throws |-> FALSE, val |-> self.m_path[1]]
    ELSE LET v == <<self.m_entry.file, ":", self.m_entry.offset, ":", self.m_entry.size>>
         IN [self |-> [self EXCEPT !.m_path = <<v>>], throws |-> FALSE, val |-> v]

\* lookup_result::full_path: the file path that follows the file info
lookup_result_full_path(self) ==
    IF self.m_full_path # <<>>
    THEN [self |-> self, throws |-> FALSE, val |-> self.m_full_path[1]]
    ELSE LET v == self.m_entry.file
         IN [self |-> [self EXCEPT !.m_full_path = <<v>>], throws |-> FALSE, val |-> v]

\* proxy::parse_lookup: a lookup_result for an entry; the callbacks hold it
\* in a local variable of the loop over the entries, one at a time
parse_lookup(r, entry, sign_port) ==
    /\ Arrives(r)
    /\ \A q \in Req : q < r => req[q].pc = "done"
    /\ req' = [req EXCEPT ![r] =
           [@ EXCEPT !.handler = "lookup_result", !.pc = "parsed",
                     !.pl = [NoLookupResult EXCEPT !.self = lookup_result(entry, sign_port)]]]
    /\ UNCHANGED <<sessions, store>>

\* the end of the loop's body: the lookup_result is destroyed
end_of_scope(r) ==
    /\ req[r].handler = "lookup_result"
    /\ req[r].pc = "parsed"
    /\ req' = [req EXCEPT ![r] = [@ EXCEPT !.pc = "done", !.pl = NoLookupResult]]
    /\ UNCHANGED <<sessions, store>>

\* one call of an accessor on the lookup_result of r, with result res
Called(r, acc, res, resolved) ==
    /\ req[r].handler = "lookup_result"
    /\ req[r].pc = "parsed"
    /\ LET g == req[r].pl
       IN req' = [req EXCEPT ![r] = [@ EXCEPT !.pl =
              [self |-> res.self,
               first |-> IF res.throws \/ g.first[acc] # <<>> THEN g.first
                         ELSE [g.first EXCEPT ![acc] = <<res.val>>],
               last |-> [acc |-> acc, throws |-> res.throws,
                         val |-> IF res.throws THEN <<>> ELSE <<res.val>>,
                         resolved |-> resolved],
               failed |-> g.failed \/ res.throws]]]
    /\ UNCHANGED <<sessions, store>>

call_host(r, resolved) ==
    Called(r, "host", lookup_result_host(req[r].pl.self, resolved), resolved)

call_port(r) == Called(r, "port", lookup_result_port(req[r].pl.self), <<>>)

call_addr(r) == Called(r, "addr", lookup_result_addr(req[r].pl.self), <<>>)

call_path(r) == Called(r, "path", lookup_result_path(req[r].pl.self), <<>>)

call_full_path(r) ==
    Called(r, "full_path", lookup_result_full_path(req[r].pl.self), <<>>)

\* ------------------------------------------------------------ ping, cache
\* a mutant of ping_die_check: the live connections are not looked at
ping_die_check_off(n) == FALSE

\* req_ping::on_request: session.state_num() < server()->die_limit()
ping_die_check(n) == n < m_die_limit

\* proxy::req_ping::on_request
req_ping_on_request(r, in) ==
    /\ Arrives(r)
    /\ LET h == get_session(r)
           code == IF ping_die_check(in.state_num) THEN 500 ELSE 200
       IN Ran(r, "ping", in, h, sessions[0], "done", <<Reply(code)>>, <<>>, <<>>)
    /\ UNCHANGED store

\* the fields of the cache document, in the order req_cache::on_request
\* looks for them
CacheFields == <<"group-weights", "symmetric-groups", "bad-groups", "cache-groups">>

\* mastermind json_group_weights(), json_symmetric_groups(),
\* json_bad_groups(), json_cache_groups(): the balancer's documents
mastermind_json ==
    [n \in Range(CacheFields) |->
        IF n = "group-weights" THEN "{weights}"
        ELSE IF n = "symmetric-groups" THEN "{symmetric}"
        ELSE IF n = "bad-groups" THEN "{bad}"
        ELSE "{cache}"]

\* a mutant of cache_body: the fields in the order of the query string
cache_body_as_asked(query) ==
    LET RECURSIVE out(_, _)
        out(i, g) ==
            IF i > Len(query.flags) THEN (IF g THEN <<"\n">> ELSE <<>>) \o <<"}", "\n">>
            ELSE (IF g THEN <<",", "\n">> ELSE <<>>)
                 \o <<query.flags[i], " : ", mastermind_json[query.flags[i]]>>
                 \o out(i + 1, TRUE)
    IN <<"{", "\n">> \o out(1, FALSE)

\* the document req_cache::on_request writes: '{', the fields the query
\* has an item for, each after ',' when a field was written before it
\* (the flag g), a line end when any was written, and '}'
cache_body(query) ==
    LET RECURSIVE out(_, _)
        out(i, g) ==
            IF i > Len(CacheFields) THEN (IF g THEN <<"\n">> ELSE <<>>) \o <<"}", "\n">>
            ELSE IF has_item(query, CacheFields[i])
            THEN (IF g THEN <<",", "\n">> ELSE <<>>)
                 \o <<CacheFields[i], " : ", mastermind_json[CacheFields[i]]>>
                 \o out(i + 1, TRUE)
            ELSE out(i + 1, g)
    IN <<"{", "\n">> \o out(1, FALSE)

\* proxy::req_cache::on_request
req_cache_on_request(r, in) ==
    /\ Arrives(r)
    /\ Ran(r, "cache", in, 0, sessions[0], "done",
           <<[Reply(200) EXCEPT !.body = cache_body(in.query)]>>, <<>>, <<>>)
    /\ UNCHANGED store

\* ------------------------------------------------------------------ stat-log
StatOp == [op |-> "stat_log", key |-> <<"", "">>, groups |-> <<>>]

\* proxy::req_stat_log::on_request
req_stat_log_on_request(r, in) ==
    /\ Arrives(r)
    /\ LET h == get_session(r)
       IN Ran(r, "stat_log", in, h, sessions[0], "dispatched", <<>>, <<StatOp>>, <<>>)
    /\ UNCHANGED store

\* operator<< of an unsigned integer: its digits in base 10, or in base 16
\* when std::hex is set on the stream, the most significant digit first
RECURSIVE put_unsigned(_, _)
put_unsigned(n, hex) ==
    LET base == IF hex THEN 16 ELSE 10
    IN IF n < base THEN <<n>> ELSE put_unsigned(n \div base, hex) \o <<n % base>>

\* the loop of req_stat_log::on_finished over one ostringstream: a <stat>
\* element per entry; hex is the stream's basefield when the element starts,
\* and std::hex, set before fsid is written, stays set on the stream
RECURSIVE stat_elements(_, _)
stat_elements(ssr, hex) ==
    IF ssr = <<>> THEN <<>>
    ELSE LET st == Head(ssr)
         IN <<[addr |-> st.addr,
               la |-> [i \in 1..3 |-> <<st.la[i] \div 100, st.la[i] % 100>>],
               memtotal |-> put_unsigned(st.vm_total, hex),
               memfree |-> put_unsigned(st.vm_free, hex),
               memcached |-> put_unsigned(st.vm_cached, hex),
               storage_size |-> put_unsigned(((st.frsize * st.blocks) \div 1024) \div 1024, hex),
               available_size |-> put_unsigned(((st.bavail * st.bsize) \div 1024) \div 1024, hex),
               files |-> put_unsigned(st.files, hex),
               fsid |-> put_unsigned(st.fsid, TRUE)]>>
            \o stat_elements(Tail(ssr), TRUE)

\* a mutant of stat_log_on_error: the error is logged and nothing is sent
stat_log_on_error_silent(error) == <<>>

\* req_stat_log::on_finished when the operation reports an error: what is
\* sent before the return
stat_log_on_error(error) == <<Reply(500)>>

\* proxy::req_stat_log::on_finished, on the statistics of the nodes that
\* were asked: entries holds the answer of every node, ssr those the
\* session's filter lets through
req_stat_log_on_finished(r, entries) ==
    /\ req[r].pc = "dispatched"
    /\ req[r].handler = "stat_log"
    /\ LET s == sessions[req[r].sess]
           ssr == filtered(s.filter, entries)
           Done(error, sent) ==
               req' = [req EXCEPT ![r] =
                   [@ EXCEPT !.pc = "done", !.statuses = statuses_of(entries),
                             !.error = error, !.swr = ssr,
                             !.replies = @ \o sent]]
       IN \E error \in aggregate_errors(s.checker, entries) :
          IF error # 0
          THEN Done(error, stat_log_on_error(error))
          ELSE Done(0, <<[Reply(200) EXCEPT
                            !.body = <<"data", stat_elements(ssr, FALSE)>>]>>)
    /\ UNCHANGED <<sessions, store>>

\* --------------------------------------------------------- specifications
\* the answers of the groups in the order the groups were given
InOrder == {[i \in 1..n |-> i] : n \in 0..(MaxGroup + 1)}

\* the time stamps and payloads of the objects explored
Timestamps == {86399, 86400}

Payloads == {<<7>>}

TimestampEmbed(t) == [tag |-> DNET_FCGI_EMBED_TIMESTAMP, tv_sec |-> t, tv_nsec |-> 0]

\* what an upload with an embedded time stamp leaves in a group
ObjWithTimestamp(p, t) == Obj(pack(Container(p, <<TimestampEmbed(t)>>)), UF_EMBEDS)

\* what an upload without embeds leaves in a group
ObjPlain(p) == Obj(pack(Container(p, <<>>)), 0)

\* the bare key with the object objs[g] in each group g of its domain
StoreOf(objs) ==
    [k \in Keys |-> [g \in Groups |->
        IF k = <<"", "f">> /\ g \in DOMAIN objs THEN objs[g] ELSE NoObj]]

GetStores ==
    {StoreOf(<<ObjWithTimestamp(<<7>>, 86399), ObjWithTimestamp(<<7>>, 86399)>>),
     StoreOf(<<ObjWithTimestamp(<<7>>, 86399), ObjWithTimestamp(<<7>>, 86400)>>),
     StoreOf(<<ObjPlain(<<7>>)>>)}

\* the If-Modified-Since headers explored: none, the dates of the time
\* stamps, and text that is no date
IfModifiedSince == {<<>>, <<0>>} \cup {http_date(t) : t \in Timestamps}

GetIn ==
    {[NoIn EXCEPT !.if_modified_since = ims] : ims \in IfModifiedSince} \cup
    {[NoIn EXCEPT !.query = [NoQuery EXCEPT !.embed = TRUE]],
     [NoIn EXCEPT !.query = [NoQuery EXCEPT !.offset = NumArg(1)]],
     [NoIn EXCEPT !.query = [NoQuery EXCEPT !.offset = BadArg]],
     [NoIn EXCEPT !.token = BadArg]}

NextGet ==
    \/ \E r \in Req, in \in GetIn, sym \in SymOutcomes :
           req_get_on_request(r, in, sym, NoGroups)
    \/ \E r \in Req, arr \in AllArrivals, st \in FailurePatterns :
           req_get_on_finished(r, arr, st)

SpecGet == InitWith(GetStores) /\ [][NextGet]_vars

DownloadInfoStores ==
    {StoreOf(<<ObjPlain(<<7>>), ObjPlain(<<7>>)>>),
     StoreOf([g \in {2} |-> ObjPlain(<<7>>)]),
     EmptyStore}

DownloadInfoIn == {NoIn, [NoIn EXCEPT !.token = BadArg]}

\* the reverse lookups explored: all succeed, or the one for group 2 fails
DnsPatterns == {[g \in Groups |-> TRUE], [g \in Groups |-> g # 2]}

NextDownloadInfo ==
    \/ \E r \in Req, in \in DownloadInfoIn, sym \in SymOutcomes, cache \in cache_groups :
           req_download_info_on_request(r, in, sym, cache)
    \/ \E r \in Req, arr \in AllArrivals, st \in FailurePatterns, dns \in DnsPatterns :
           req_download_info_on_finished(r, arr, st, dns)

SpecDownloadInfo == InitWith(DownloadInfoStores) /\ [][NextDownloadInfo]_vars

\* uploads that pack containers and gets that unpack them
ContainerPayloads == {<<>>, <<7>>, <<0, 7>>, <<1, 1, 86400, 0>>}

ContainerEmbeds ==
    {<<>>, <<TimestampEmbed(86400)>>, <<TimestampEmbed(86399), TimestampEmbed(86400)>>}

Containers == {Container(d, e) : d \in ContainerPayloads, e \in ContainerEmbeds}

\* nothing stored, or a container with two embeds in group 1
ContainerStores ==
    {EmptyStore} \cup
    {StoreOf(<<Obj(pack(c), UF_EMBEDS)>>) : c \in {k \in Containers : Len(k.embeds) = 2}}

ContainerUploadIn ==
    {[NoIn EXCEPT !.buffer = d, !.query = q] :
        d \in ContainerPayloads,
        q \in {NoQuery, [NoQuery EXCEPT !.embed = TRUE, !.timestamp = NumArg(86400)],
               [NoQuery EXCEPT !.embed_timestamp = TRUE]}}

ContainerGetIn == {NoIn, [NoIn EXCEPT !.query = [NoQuery EXCEPT !.embed = TRUE]]}

NextContainer ==
    \/ \E r \in Req, in \in ContainerUploadIn :
           req_upload_on_request(r, in, [throws |-> FALSE, groups |-> <<2, 1>>])
    \/ \E r \in Req, arr \in InOrder, st \in FailurePatterns :
           req_upload_on_finished(r, arr, st)
    \/ \E r \in Req, in \in ContainerGetIn :
           req_get_on_request(r, in, [throws |-> FALSE, groups |-> <<1, 2>>], NoGroups)
    \/ \E r \in Req, arr \in InOrder, st \in FailurePatterns :
           req_get_on_finished(r, arr, st)

SpecContainer == InitWith(ContainerStores) /\ [][NextContainer]_vars

\* pings under every count of live connections and cache requests with
\* every choice of the four flags in every order
PingIn == {[NoIn EXCEPT !.state_num = k] : k \in StateNums}

CacheIn ==
    {[NoIn EXCEPT !.query = [NoQuery EXCEPT !.flags = f]] :
        f \in UNION {Perms(S) : S \in SUBSET Range(CacheFields)}}

NextService ==
    \/ \E r \in Req, in \in PingIn : req_ping_on_request(r, in)
    \/ \E r \in Req, in \in CacheIn : req_cache_on_request(r, in)

SpecService == InitWith({EmptyStore}) /\ [][NextService]_vars

\* the statistics of three nodes: two that answer and one that fails
StatNode(n, status) ==
    [addr |-> n, status |-> status, la |-> <<100 * n, 50, 25 + n>>,
     vm_total |-> 16 * n, vm_free |-> 9 + n, vm_cached |-> 3 * n,
     frsize |-> 4096, blocks |-> 2560 * n, bavail |-> 3072 * n, bsize |-> 4096,
     files |-> 10 + n, fsid |-> 255 * n]

StatNodes == {StatNode(1, 0), StatNode(2, 0), StatNode(3, 0 - EIO)}

\* the answers of every choice of nodes, in every order
StatResults == UNION {Perms(S) : S \in SUBSET StatNodes}

NextStatLog ==
    \/ \E r \in Req : req_stat_log_on_request(r, NoIn)
    \/ \E r \in Req, entries \in StatResults : req_stat_log_on_finished(r, entries)

SpecStatLog == InitWith({EmptyStore}) /\ [][NextStatLog]_vars

\* uploads with every choice of the write parameters; "plain-write" comes
\* with /upload-default/f, and once with /upload/f, where its '-' is the
\* first of the url
WriteQueries ==
    {[NoQuery EXCEPT !.prepare = p, !.commit = c, !.plain_write = (w = 1),
                     !.flags = IF w = 2 THEN <<"plain-write">> ELSE <<>>,
                     !.offset = o] :
        p \in {NoArg, NumArg(2), BadArg}, c \in {NoArg, NumArg(3)},
        w \in 0..2, o \in {NoArg, NumArg(1)}} \cup
    {[NoQuery EXCEPT !.offset = BadArg]}

WriteIn ==
    {[NoIn EXCEPT !.dash = has_item(q, "plain-write"), !.ns = "default",
                  !.buffer = <<7>>, !.query = q] : q \in WriteQueries} \cup
    {[NoIn EXCEPT !.late_dash = TRUE, !.buffer = <<7>>,
                  !.query = [NoQuery EXCEPT !.flags = <<"plain-write">>]]}

NextWrite ==
    \/ \E r \in Req, in \in WriteIn, bal \in {[throws |-> FALSE, groups |-> <<2, 1>>], BalancerThrows} :
           req_upload_on_request(r, in, bal)
    \/ \E r \in Req, arr \in InOrder, st \in FailurePatterns :
           req_upload_on_finished(r, arr, st)

SpecWrite == InitWith({EmptyStore}) /\ [][NextWrite]_vars

\* lookup results of two entries, one of them with a sign port; what
\* getnameinfo finds for a node can fail and can change between two calls
LookupResults ==
    {<<LookupEntry(1, 1025, "f1", 0, 4), "">>, <<LookupEntry(2, 1026, "f2", 4, 8), "80">>}

Resolved == {<<>>, <<"n1">>, <<"n2">>}

NextLookupResult ==
    \/ \E r \in Req, p \in LookupResults : parse_lookup(r, p[1], p[2])
    \/ \E r \in Req, resolved \in Resolved : call_host(r, resolved)
    \/ \E r \in Req : call_port(r)
    \/ \E r \in Req : call_addr(r)
    \/ \E r \in Req : call_path(r)
    \/ \E r \in Req : call_full_path(r)
    \/ \E r \in Req : end_of_scope(r)

SpecLookupResult == InitWith({EmptyStore}) /\ [][NextLookupResult]_vars

\* all handlers together, on a few requests each
SomeUploadIn ==
    {[NoIn EXCEPT !.dash = TRUE, !.ns = "foo", !.buffer = <<7>>, !.state_num = k] :
        k \in StateNums} \cup
    {[NoIn EXCEPT !.dash = TRUE, !.ns = "bar", !.authorization = "secret",
                  !.buffer = <<7>>,
                  !.query = [NoQuery EXCEPT !.embed = TRUE, !.timestamp = NumArg(86400)]],
     [NoIn EXCEPT !.dash = TRUE, !.ns = "foo", !.buffer = <<7>>,
                  !.query = [NoQuery EXCEPT !.offset = BadArg]]}

SomeDeleteIn ==
    {[NoIn EXCEPT !.dash = TRUE, !.ns = "bar", !.authorization = "secret",
                  !.state_num = k] : k \in StateNums} \cup
    {[NoIn EXCEPT !.dash = TRUE, !.ns = "bar"], [NoIn EXCEPT !.dash = TRUE, !.ns = "nope"]}

SomePathIn ==
    {[NoIn EXCEPT !.state_num = k] : k \in StateNums} \cup {[NoIn EXCEPT !.token = BadArg]}

SomeGetIn == SomePathIn \cup {[NoIn EXCEPT !.query = [NoQuery EXCEPT !.size = BadArg]]}

SomeStores ==
    {[k \in Keys |-> [g \in Groups |->
        IF k \in {<<"", "f">>, <<"bar", "f">>} /\ g \in {1, 2}
        THEN ObjPlain(<<7>>) ELSE NoObj]]}

Next ==
    \/ \E r \in Req, in \in SomeUploadIn, bal \in UploadBalancer :
           req_upload_on_request(r, in, bal)
    \/ \E r \in Req, arr \in InOrder, st \in FailurePatterns :
           req_upload_on_finished(r, arr, st)
    \/ \E r \in Req, in \in SomeDeleteIn, sym \in SymOutcomes :
           req_delete_on_request(r, in, sym, NoGroups)
    \/ \E r \in Req, in \in SomePathIn, sym \in SymOutcomes :
           req_delete_on_request_proxy(r, in, sym, NoGroups)
    \/ \E r \in Req, in \in SomeDeleteIn, sym \in SymOutcomes :
           req_delete_on_request_ns(r, in, sym, NoGroups)
    \/ \E r \in Req, st \in FailurePatterns : req_delete_on_finished(r, st)
    \/ \E r \in Req, in \in SomeGetIn, sym \in SymOutcomes :
           req_get_on_request(r, in, sym, NoGroups)
    \/ \E r \in Req, arr \in InOrder, st \in FailurePatterns :
           req_get_on_finished(r, arr, st)
    \/ \E r \in Req, in \in SomePathIn, sym \in SymOutcomes :
           req_download_info_on_request(r, in, sym, NoGroups)
    \/ \E r \in Req, arr \in InOrder, st \in FailurePatterns, dns \in DnsPatterns :
           req_download_info_on_finished(r, arr, st, dns)

Init == InitWith(SomeStores)

Spec == Init /\ [][Next]_vars

\* every handler, with a storage client that calls each completion callback
\* it was given
Completion(r) ==
    \/ \E arr \in InOrder, st \in FailurePatterns : req_upload_on_finished(r, arr, st)
    \/ \E st \in FailurePatterns : req_delete_on_finished(r, st)
    \/ \E arr \in InOrder, st \in FailurePatterns : req_get_on_finished(r, arr, st)
    \/ \E arr \in InOrder, st \in FailurePatterns, dns \in DnsPatterns :
           req_download_info_on_finished(r, arr, st, dns)
    \/ \E entries \in StatResults : req_stat_log_on_finished(r, entries)

NextLive ==
    \/ \E r \in Req, in \in SomeUploadIn, bal \in UploadBalancer :
           req_upload_on_request(r, in, bal)
    \/ \E r \in Req, in \in SomeDeleteIn, sym \in SymOutcomes :
           req_delete_on_request(r, in, sym, NoGroups)
    \/ \E r \in Req, in \in SomePathIn, sym \in SymOutcomes :
           req_delete_on_request_proxy(r, in, sym, NoGroups)
    \/ \E r \in Req, in \in SomeDeleteIn, sym \in SymOutcomes :
           req_delete_on_request_ns(r, in, sym, NoGroups)
    \/ \E r \in Req, in \in SomeGetIn, sym \in SymOutcomes :
           req_get_on_request(r, in, sym, NoGroups)
    \/ \E r \in Req, in \in SomePathIn, sym \in SymOutcomes :
           req_download_info_on_request(r, in, sym, NoGroups)
    \/ \E r \in Req : req_stat_log_on_request(r, NoIn)
    \/ \E r \in Req, in \in PingIn : req_ping_on_request(r, in)
    \/ \E r \in Req : req_cache_on_request(r, NoIn)
    \/ \E r \in Req : Completion(r)

SpecLive == Init /\ [][NextLive]_vars /\ \A r \in Req : WF_vars(Completion(r))

\* ------------------------------------------------------- claims on uploads
\* the success policy in the words of the configuration
PolicySatisfied(policy, good, all) ==
    IF policy = "all" THEN good = all
    ELSE IF policy = "any" THEN good >= 1
    ELSE 2 * good > all

\* the uploads for which a write went out
DispatchedUploads == {r \in Req : req[r].handler = "upload" /\ req[r].ops # <<>>}

\* the targeted groups of a finished operation that answered with status 0
GoodOf(r) == {g \in DOMAIN req[r].statuses : req[r].statuses[g] = 0}

FailedOf(r) == {g \in DOMAIN req[r].statuses : req[r].statuses[g] # 0}

NsOf(r) == get_filename(req[r].in)[2]

\* C2: every dispatched upload is answered once, with 200 if and only if the
\* success policy configured for its namespace (all: every targeted group
\* succeeded; any: at least one; quorum: more than half) is satisfied by the
\* groups that succeeded, and with 500 otherwise
C2_UploadPolicy ==
    \A r \in DispatchedUploads :
        req[r].pc = "done" =>
            /\ Len(req[r].replies) = 1
            /\ req[r].replies[1].code =
                   IF PolicySatisfied(success_copies_num[NsOf(r)],
                                      Cardinality(GoodOf(r)),
                                      Len(req[r].ops[1].groups))
                   THEN 200 ELSE 500

\* a quorum upload over three groups of which exactly two succeeded, answered 200
C2_Witness ==
    \E r \in DispatchedUploads :
        /\ req[r].pc = "done"
        /\ NsOf(r) = "foo"
        /\ Len(req[r].ops[1].groups) = 3
        /\ Cardinality(GoodOf(r)) = 2
        /\ req[r].replies[1].code = 200

\* C3: an upload that completes without a policy-level error while some
\* targeted group failed is answered 200 with exactly one <complete> element
\* per targeted group, each with that group's status, and a <written> value
\* equal to the number of groups with status 0
C3_CompletePerGroup ==
    \A r \in DispatchedUploads :
        (req[r].pc = "done" /\ req[r].error = 0 /\ FailedOf(r) # {}) =>
            LET reply == req[r].replies[1]
                groups == req[r].ops[1].groups
            IN /\ reply.code = 200
               /\ Len(reply.body) = 6
               /\ Len(reply.body[5]) = Len(groups)
               /\ \A g \in Range(groups) :
                      \E i \in 1..Len(reply.body[5]) :
                          /\ reply.body[5][i][3] = g
                          /\ reply.body[5][i][4] = req[r].statuses[g]
               /\ reply.body[6] = Cardinality(GoodOf(r))

\* C4: whenever an upload completion reports a policy-level error, the logged
\* bad groups are the targeted groups minus the good groups, disjoint from
\* the good groups, the sizes add up to the number of targeted groups, and
\* the bad groups are exactly the groups that failed
C4_BadGroups ==
    \A r \in DispatchedUploads :
        (req[r].pc = "done" /\ req[r].log.written) =>
            LET good == req[r].log.good_groups
                bad == req[r].log.bad_groups
                all == req[r].log.all_groups
            IN /\ req[r].error # 0
               /\ Range(all) = Range(req[r].ops[1].groups)
               /\ Range(bad) = Range(all) \ Range(good)
               /\ Range(bad) \cap Range(good) = {}
               /\ Len(good) + Len(bad) = Len(all)
               /\ Range(bad) = FailedOf(r)
               /\ Len(bad) = Cardinality(FailedOf(r))

\* policy all over three groups, one failure: the bad groups are that group
C4_Witness ==
    \E r \in DispatchedUploads :
        /\ req[r].pc = "done"
        /\ req[r].log.written
        /\ NsOf(r) = "bar"
        /\ Len(req[r].log.all_groups) = 3
        /\ Cardinality(FailedOf(r)) = 1
        /\ Range(req[r].log.bad_groups) = FailedOf(r)
        /\ req[r].replies[1].code = 500

\* the uploads whose namespace has a secret and whose Authorization header
\* is missing or wrong
UnauthorizedUploads ==
    {r \in Req :
        /\ req[r].handler = "upload"
        /\ get_file_info(req[r].in)[2].name # ""
        /\ ~check_basic_auth(get_file_info(req[r].in)[2].name,
                             get_file_info(req[r].in)[2].auth_key,
                             req[r].in.authorization)}

\* C5: an upload to a namespace with a secret, sent with a missing or wrong
\* Authorization header, is answered 401 with a WWW-Authenticate header and
\* no write is issued
C5_UploadAuth ==
    \A r \in UnauthorizedUploads :
        /\ req[r].ops = <<>>
        /\ Len(req[r].replies) = 1
        /\ req[r].replies[1].code = 401
        /\ req[r].replies[1].www_authenticate # <<>>

\* ------------------------------------------------------- claims on deletes
\* the deletes whose namespace resolved and refused the credentials
UnauthorizedDeletes ==
    {r \in Req :
        /\ req[r].handler \in {"delete", "delete_ns"}
        /\ get_file_info(req[r].in)[2].name # ""
        /\ ~check_basic_auth(get_file_info(req[r].in)[2].name,
                             get_file_info(req[r].in)[2].auth_key,
                             req[r].in.authorization)}

\* C1: a delete that fails the Basic-Auth check of its resolved namespace is
\* answered 401 with WWW-Authenticate: Basic realm="<namespace name>" and
\* stops there: no remove is issued and no other reply is sent
C1_DeleteAuthStops ==
    \A r \in UnauthorizedDeletes :
        /\ req[r].pc = "done"
        /\ req[r].ops = <<>>
        /\ req[r].replies = <<Unauthorized(get_file_info(req[r].in)[2].name)>>

\* the deletes for which a remove went out and was answered
FinishedDeletes ==
    {r \in Req : req[r].handler \in DeleteHandlers /\ req[r].pc = "done"
                 /\ req[r].ops # <<>>}

\* r2 is a delete of the key of r1, authorised like r1, dispatched after r1
\* completed; the key existed when r1 ran and no node failed for either
SuccessiveDeletes(r1, r2) ==
    /\ r1 \in FinishedDeletes /\ r2 \in FinishedDeletes
    /\ r1 \in req[r2].after
    /\ req[r1].ops = req[r2].ops
    /\ r1 \notin UnauthorizedDeletes /\ r2 \notin UnauthorizedDeletes
    /\ GoodOf(r1) # {}
    /\ \A r \in {r1, r2} : \A g \in DOMAIN req[r].statuses :
           req[r].statuses[g] \in {0, 0 - ENOENT}

\* C7: two successive authorised deletes of a key that exists, the second
\* dispatched after the first completed, with enough live connections and
\* no storage failure, are answered 200 and then 404
C7_DeleteTwice ==
    \A r1, r2 \in Req :
        SuccessiveDeletes(r1, r2) =>
            /\ req[r1].replies = <<Reply(200)>>
            /\ req[r2].replies = <<Reply(404)>>

\* two such deletes of a key held by one of the two groups asked
C7_Witness ==
    \E r1, r2 \in Req :
        /\ SuccessiveDeletes(r1, r2)
        /\ Len(req[r1].ops[1].groups) = 2
        /\ Cardinality(GoodOf(r1)) = 1
        /\ req[r1].replies[1].code = 200
        /\ req[r2].replies[1].code = 404

\* ---------------------------------------------------------- claims on gets
\* the gets of a whole object that a group answered
WholeGets ==
    {r \in Req : /\ req[r].handler = "get" /\ req[r].pc = "done"
                 /\ req[r].error = 0 /\ req[r].swr # <<>>
                 /\ req[r].ops[1].offset = 0 /\ req[r].ops[1].size = 0}

\* the object that r read was stored with payload p and embedded time stamp t
ReadWithTimestamp(r, p, t) ==
    /\ r \in WholeGets
    /\ req[r].swr[1].stored = pack(Container(p, <<TimestampEmbed(t)>>))
    /\ has_UF_EMBEDS(req[r].swr[1].user_flags)

\* C6: for an object stored with an embedded time stamp, a get whose
\* If-Modified-Since equals the Last-Modified an earlier get of the same
\* object returned is answered 304 with an empty body; a get with any other
\* If-Modified-Since, or none, is answered 200 with the whole payload and
\* the Last-Modified header set
C6_ConditionalGet ==
    /\ \A r \in Req, p \in Payloads, t \in Timestamps :
           ReadWithTimestamp(r, p, t) =>
               IF req[r].in.if_modified_since = http_date(t)
               THEN req[r].replies = <<Reply(304)>>
               ELSE req[r].replies =
                        <<[Reply(200) EXCEPT !.last_modified = http_date(t),
                                             !.body = p]>>
    /\ \A r1, r2 \in Req, p \in Payloads, t \in Timestamps :
           (/\ ReadWithTimestamp(r1, p, t) /\ ReadWithTimestamp(r2, p, t)
            /\ r1 \in req[r2].after
            /\ req[r1].replies[1].code = 200) =>
               /\ req[r1].replies[1].last_modified # <<>>
               /\ IF req[r2].in.if_modified_since = req[r1].replies[1].last_modified
                  THEN req[r2].replies = <<Reply(304)>>
                  ELSE /\ req[r2].replies[1].code = 200
                       /\ req[r2].replies[1].body = p
                       /\ req[r2].replies[1].last_modified =
                              req[r1].replies[1].last_modified

\* a get answered 200 with Last-Modified, then a get of the same object with
\* that value as If-Modified-Since answered 304
C6_Witness ==
    \E r1, r2 \in Req, p \in Payloads, t \in Timestamps :
        /\ ReadWithTimestamp(r1, p, t) /\ ReadWithTimestamp(r2, p, t)
        /\ r1 \in req[r2].after
        /\ req[r1].replies[1].code = 200
        /\ req[r1].replies[1].body = p
        /\ req[r2].in.if_modified_since = req[r1].replies[1].last_modified
        /\ req[r2].replies = <<Reply(304)>>

\* -------------------------------------------------- claims on download-info
\* the download-infos whose lookup completed without an aggregate error
LookedUp ==
    {r \in Req : /\ req[r].handler = "download_info" /\ req[r].pc = "done"
                 /\ req[r].ops # <<>> /\ req[r].error = 0}

\* the entries of r's lookup, in order, up to the first without an error
UpToFirstGood(r, i) ==
    /\ i \in 1..Len(req[r].swr)
    /\ req[r].swr[i].status = 0
    /\ \A j \in 1..(i - 1) : req[r].swr[j].status # 0

Holders == {q \in Req : req[q].pc # "idle" /\ req[q].sess # 0}

\* C9: what one request sets on its session (groups, checker, filter, error
\* handler, user flags) never changes the session of another request in
\* flight or finished, and never changes the ambient session the sessions
\* of later requests are cloned from; no two requests hold the same session
C9_SessionIsolation ==
    [][/\ sessions'[0] = sessions[0]
       /\ \A q \in Holders : sessions'[req[q].sess] = sessions[req[q].sess]
       /\ \A q1, q2 \in Req :
              (req'[q1].pc # "idle" /\ req'[q2].pc # "idle" /\ q1 # q2
               /\ req'[q1].sess # 0) => req'[q1].sess # req'[q2].sess]_vars

\* two requests in flight at once whose sessions were set up differently,
\* the ambient session being as it was constructed
C9_Witness ==
    \E q1, q2 \in Holders :
        /\ req[q1].pc = "dispatched" /\ req[q2].pc = "dispatched"
        /\ req[q1].handler = "upload" /\ req[q2].handler \in DeleteHandlers
        /\ sessions[req[q1].sess].groups # sessions[req[q2].sess].groups
        /\ sessions[req[q1].sess].checker # sessions[req[q2].sess].checker
        /\ sessions[req[q1].sess].filter # sessions[req[q2].sess].filter
        /\ sessions[0] = ambient_session

\* ------------------------------------------- claims on the live connections
\* the uploads and deletes that passed validation and authorisation: the
\* namespace resolved, the credentials fit and groups were determined
Validated ==
    {r \in Req :
        /\ req[r].pc # "idle"
        /\ req[r].handler \in {"upload"} \cup DeleteHandlers
        /\ req[r].handler # "delete_proxy" => get_file_info(req[r].in)[2].name # ""
        /\ r \notin UnauthorizedUploads \cup UnauthorizedDeletes
        /\ sessions[req[r].sess].groups # <<>>}

\* C10: an upload or delete that passes validation and authorisation while
\* the storage client has fewer than die_limit live connections is answered
\* 500 at once, no write or remove is issued and the request is not retried
C10_DieLimit ==
    \A r \in Validated :
        req[r].in.state_num < m_die_limit =>
            /\ req[r].pc = "done"
            /\ req[r].ops = <<>>
            /\ req[r].replies = <<Reply(500)>>

\* an upload and a delete refused for the lack of live connections
C10_Witness ==
    \E r1, r2 \in Validated :
        /\ req[r1].handler = "upload" /\ req[r2].handler = "delete"
        /\ req[r1].in.state_num < m_die_limit /\ req[r2].in.state_num < m_die_limit
        /\ req[r1].replies = <<Reply(500)>> /\ req[r2].replies = <<Reply(500)>>
        /\ req[r1].ops = <<>> /\ req[r2].ops = <<>>

\* ------------------------------------------------ claims on query values
\* a parsed parameter of the query carries text that is no number
MalformedQuery(query) ==
    \E a \in {query.offset, query.size, query.timestamp, query.prepare, query.commit} :
        a.present /\ ~a.numeric

\* C11: an upload or a get whose query carries a malformed value for a
\* parsed parameter (offset, size, timestamp, prepare, commit) is answered
\* 400
C11_MalformedQuery400 ==
    \A r \in Req :
        (/\ req[r].pc # "idle"
         /\ req[r].handler \in {"upload", "get"}
         /\ MalformedQuery(req[r].in.query)) =>
            /\ req[r].pc = "done"
            /\ req[r].replies = <<Reply(400)>>

\* ------------------------------------------------- claims on get's errors
\* C12: a get whose resolved group set is empty is answered 404 and no read
\* is issued; a dispatched read that completes with a storage error is
\* answered 404 when the error is -ENOENT and 500 for every other error
C12_GetErrors ==
    \A r \in Req :
        (req[r].handler = "get" /\ req[r].pc # "idle") =>
            /\ sessions[req[r].sess].groups = <<>> =>
                   /\ req[r].pc = "done"
                   /\ req[r].ops = <<>>
                   /\ req[r].replies = <<Reply(404)>>
            /\ (req[r].pc = "done" /\ req[r].ops # <<>> /\ req[r].error # 0) =>
                   req[r].replies =
                       <<Reply(IF req[r].error = 0 - ENOENT THEN 404 ELSE 500)>>

\* a read that found the key nowhere, answered 404, and a read that an i/o
\* error failed, answered 500
C12_Witness ==
    \E r1, r2 \in Req :
        /\ req[r1].handler = "get" /\ req[r2].handler = "get"
        /\ req[r1].pc = "done" /\ req[r2].pc = "done"
        /\ req[r1].ops # <<>> /\ req[r2].ops # <<>>
        /\ req[r1].error = 0 - ENOENT /\ req[r1].replies = <<Reply(404)>>
        /\ req[r2].error = 0 - EIO /\ req[r2].replies = <<Reply(500)>>

\* ------------------------------------------- claims on delete's status codes
\* the deletes that were let in: the credentials fit the namespace, if any
AdmittedDeletes ==
    {r \in Req : /\ req[r].handler \in DeleteHandlers /\ req[r].pc # "idle"
                 /\ r \notin UnauthorizedDeletes}

\* the namespace of a delete cannot be resolved (the delete of proxy.cpp
\* resolves none)
NamespaceUnresolved(r) ==
    req[r].handler # "delete_proxy" /\ get_file_info(req[r].in)[2].name = ""

\* the balancer answered the request with lists of groups
GroupsResolved(r) ==
    /\ req[r].in.slash /\ req[r].in.token.numeric
    /\ ~req[r].in.sym.throws /\ ~req[r].in.cache.throws

\* the groups the balancer answered with
ResolvedGroups(r) == req[r].in.sym.groups \o req[r].in.cache.groups

\* C13: a delete is answered 400 when its namespace cannot be resolved and
\* 404 when the namespace resolves but the resolved group set is empty, in
\* both cases without a remove; a dispatched remove is answered 404 when the
\* aggregate error is -ENOENT, 500 on any other error, and 200 with an empty
\* body otherwise
C13_DeleteCodes ==
    \A r \in AdmittedDeletes :
        /\ NamespaceUnresolved(r) =>
               /\ req[r].pc = "done" /\ req[r].ops = <<>>
               /\ req[r].replies = <<Reply(400)>>
        /\ (~NamespaceUnresolved(r) /\ GroupsResolved(r) /\ ResolvedGroups(r) = <<>>) =>
               /\ req[r].pc = "done" /\ req[r].ops = <<>>
               /\ req[r].replies = <<Reply(404)>>
        /\ (req[r].pc = "done" /\ req[r].ops # <<>>) =>
               req[r].replies =
                   <<Reply(IF req[r].error = 0 - ENOENT THEN 404
                           ELSE IF req[r].error # 0 THEN 500 ELSE 200)>>

\* ------------------------------------------------ claims on group sets
\* the requests that take their groups from the path, let in and with a
\* namespace where the handler resolves one
PathRequests ==
    {r \in Req : /\ req[r].pc # "idle"
                 /\ req[r].handler \in {"get", "download_info"} \cup DeleteHandlers
                 /\ req[r].handler \in {"delete", "delete_ns"} =>
                        (~NamespaceUnresolved(r) /\ r \notin UnauthorizedDeletes)}

\* C14: whenever the group set resolved for a request is empty, the request
\* is answered 404 and no storage operation (write, read, remove, lookup)
\* is issued
C14_EmptyGroupsStop ==
    /\ \A r \in Req : \A i \in 1..Len(req[r].ops) : req[r].ops[i].groups # <<>>
    /\ \A r \in PathRequests :
           (GroupsResolved(r) /\ ResolvedGroups(r) = <<>>) =>
               /\ req[r].pc = "done" /\ req[r].ops = <<>>
               /\ req[r].replies = <<Reply(404)>>

\* C15: the group set installed on the session of a get, delete or
\* download-info holds no group id twice, whatever symmetric groups and
\* cache groups the balancer returns
C15_UniqueGroups ==
    \A r \in PathRequests :
        LET groups == sessions[req[r].sess].groups
        IN Cardinality(Range(groups)) = Len(groups)

\* the group token is no integer, or the balancer failed
ResolutionFailed(r) ==
    /\ req[r].in.slash
    /\ ~req[r].in.token.numeric \/ req[r].in.sym.throws \/ req[r].in.cache.throws

\* C16: for get, delete and download-info a group token that is no integer,
\* or a failing balancer lookup, is not fatal: the request goes on with an
\* empty group set and is then answered 404
C16_BadTokenNotFatal ==
    \A r \in PathRequests :
        ResolutionFailed(r) =>
            /\ sessions[req[r].sess].groups = <<>>
            /\ req[r].pc = "done" /\ req[r].ops = <<>>
            /\ req[r].replies = <<Reply(404)>>

\* ------------------------------------------- claims on the data container
\* the get r read the packed container c and decoded it with or without
\* embeds
Unpacked(r, c, embeded) ==
    /\ r \in WholeGets
    /\ req[r].swr[1].stored = pack(c)
    /\ get_embeded(req[r].in.query, req[r].swr[1].user_flags) = embeded

\* C17: for every container c with zero or more embeds, unpack(pack(c))
\* with embeds equals c; for every c with zero embeds, unpack(pack(c))
\* without embeds has zero embeds and the whole packed byte stream as its
\* payload. A get that decodes a stored container answers accordingly
C17_ContainerRoundTrip ==
    /\ \A c \in Containers :
           /\ unpack(pack(c), TRUE) = [ok |-> TRUE, dc |-> c]
           /\ c.embeds = <<>> =>
                  unpack(pack(c), FALSE) = [ok |-> TRUE, dc |-> Container(pack(c), <<>>)]
    /\ \A r \in Req, c \in Containers :
           /\ Unpacked(r, c, TRUE) =>
                  /\ req[r].replies[1].code = 200
                  /\ req[r].replies[1].body = c.data
                  /\ req[r].replies[1].last_modified =
                         IF c.embeds = <<>> THEN <<>> ELSE http_date(c.embeds[1].tv_sec)
           /\ (Unpacked(r, c, FALSE) /\ c.embeds = <<>>) =>
                  /\ req[r].replies[1].code = 200
                  /\ req[r].replies[1].body = pack(c)
                  /\ req[r].replies[1].last_modified = <<>>

\* a get that decoded what an earlier upload packed with an embedded time
\* stamp, the payload itself looking like an embed
C17_Witness ==
    \E r1, r2 \in Req, c \in Containers :
        /\ req[r1].handler = "upload" /\ r1 \in req[r2].after
        /\ req[r1].content = pack(c) /\ Len(c.embeds) = 1
        /\ c.data = req[r1].in.buffer /\ Len(c.data) = 4
        /\ Unpacked(r2, c, TRUE)
        /\ req[r2].replies[1].body = req[r1].in.buffer

\* ------------------------------------------------- claims on the cache
\* the fields of the cache document for which flags has the flag, in the
\* document's order
FieldsPresent(flags) == SelectSeq(CacheFields, LAMBDA n : n \in Range(flags))

\* the positions of the field names and of the commas in a document
NamesAt(body) == {i \in 1..Len(body) : body[i] \in Range(CacheFields)}

CommasAt(body) == {i \in 1..Len(body) : body[i] = ","}

\* C18: for every subset of the flags group-weights, symmetric-groups,
\* bad-groups, cache-groups, given in any order, the document holds exactly
\* the fields of the flags present, in that fixed order, with a comma
\* between consecutive fields and none before the first or after the last;
\* without a flag the object is empty
C18_CacheFields ==
    \A r \in Req :
        (req[r].handler = "cache" /\ req[r].pc = "done") =>
            LET body == req[r].replies[1].body
                want == FieldsPresent(req[r].in.query.flags)
                names == SeqOfSet(NamesAt(body))
            IN /\ Len(req[r].replies) = 1 /\ req[r].replies[1].code = 200
               /\ req[r].ops = <<>>
               /\ [i \in 1..Len(names) |-> body[names[i]]] = want
               /\ \A i \in 1..Len(names) :
                      body[names[i] + 2] = mastermind_json[body[names[i]]]
               /\ Cardinality(CommasAt(body)) =
                      IF want = <<>> THEN 0 ELSE Len(want) - 1
               /\ \A i \in CommasAt(body) :
                      \E j, k \in NamesAt(body) : j < i /\ i < k
               /\ want = <<>> => body = <<"{", "\n", "}", "\n">>

\* bad-groups asked before group-weights: group-weights is rendered first
C18_Witness ==
    \E r \in Req :
        /\ req[r].handler = "cache" /\ req[r].pc = "done"
        /\ req[r].in.query.flags = <<"bad-groups", "group-weights">>
        /\ req[r].replies[1].body =
               <<"{", "\n", "group-weights", " : ", "{weights}", ",", "\n",
                 "bad-groups", " : ", "{bad}", "\n", "}", "\n">>

\* -------------------------------------------------------- claims on ping
\* C20: a ping is answered 200 exactly when the storage client has at
\* least die_limit live connections at the time of the request and 500
\* otherwise, without a body, and issues no storage operation
C20_Ping ==
    \A r \in Req :
        (req[r].handler = "ping" /\ req[r].pc # "idle") =>
            /\ req[r].pc = "done"
            /\ req[r].ops = <<>>
            /\ req[r].replies =
                   <<Reply(IF req[r].in.state_num >= m_die_limit THEN 200 ELSE 500)>>
            /\ req[r].replies[1].body = <<>>

\* a ping with enough live connections and one with too few
C20_Witness ==
    \E r1, r2 \in Req :
        /\ req[r1].handler = "ping" /\ req[r2].handler = "ping"
        /\ req[r1].in.state_num >= m_die_limit /\ req[r1].replies = <<Reply(200)>>
        /\ req[r2].in.state_num < m_die_limit /\ req[r2].replies = <<Reply(500)>>

\* ------------------------------------------ claims on upload's namespace
\* the namespace an upload's path names: its suffix, "default" without one
NamedNamespace(in) == IF in.dash THEN in.ns ELSE "default"

\* C19: an upload whose namespace cannot be resolved from the path, or is
\* not in the registry, is answered 400 before any group resolution or
\* write; a path without a namespace suffix resolves to "default"
C19_UploadNamespace ==
    \A r \in Req :
        (req[r].handler = "upload" /\ req[r].pc # "idle") =>
            LET name == NamedNamespace(req[r].in)
            IN /\ name \notin DOMAIN m_namespaces =>
                      /\ req[r].pc = "done" /\ req[r].ops = <<>>
                      /\ req[r].replies = <<Reply(400)>>
                      /\ sessions[req[r].sess] = ambient_session
               /\ name \in DOMAIN m_namespaces =>
                      /\ req[r].replies # <<Reply(400)>>
                      /\ sessions[req[r].sess].checker = m_namespaces[name].result_checker
                      /\ req[r].ops # <<>> =>
                             Len(req[r].ops[1].groups) = m_namespaces[name].groups_count

\* ------------------------------------------------ claims on replies
\* C21: a request is answered at most once, whichever handler runs it, and a
\* request that was answered while it was dispatched has no storage
\* operation in flight whose completion would answer it again
C21_OneReply ==
    \A r \in Req :
        /\ Len(req[r].replies) <= 1
        /\ (req[r].pc = "dispatched" /\ req[r].ops # <<>>) => req[r].replies = <<>>

\* ------------------------------------------------ claims on stat-log
\* the stat-log requests that were answered with the document
StatLogs ==
    {r \in Req : /\ req[r].handler = "stat_log"
                 /\ req[r].pc = "done"
                 /\ req[r].replies[1].code = 200}

\* C27: the stat-log document has one <stat> element per node that answered,
\* and for every node, whatever its position, memory totals, storage size,
\* available size and file count are written in decimal and only the
\* filesystem id in hexadecimal
C27_StatLogNumbers ==
    \A r \in StatLogs :
        LET ssr == req[r].swr
            elements == req[r].replies[1].body[2]
        IN /\ Len(elements) = Len(ssr)
           /\ \A i \in 1..Len(ssr) :
                /\ elements[i].addr = ssr[i].addr
                /\ elements[i].memtotal = put_unsigned(ssr[i].vm_total, FALSE)
                /\ elements[i].memfree = put_unsigned(ssr[i].vm_free, FALSE)
                /\ elements[i].memcached = put_unsigned(ssr[i].vm_cached, FALSE)
                /\ elements[i].storage_size =
                       put_unsigned(((ssr[i].frsize * ssr[i].blocks) \div 1024) \div 1024, FALSE)
                /\ elements[i].available_size =
                       put_unsigned(((ssr[i].bavail * ssr[i].bsize) \div 1024) \div 1024, FALSE)
                /\ elements[i].files = put_unsigned(ssr[i].files, FALSE)
                /\ elements[i].fsid = put_unsigned(ssr[i].fsid, TRUE)

\* the requests that entered a handler
Entered == {r \in Req : req[r].pc # "idle"}

\* C22: every request that entered a handler is eventually answered, when
\* the storage client calls every completion callback it was given
C22_EventuallyAnswered ==
    \A r \in Req : (req[r].pc # "idle") ~> (req[r].replies # <<>>)

\* one request was answered while it was dispatched, the other by a
\* completion whose logic raised an exception (the reverse lookup of the
\* host failed)
C22_Witness ==
    \E r1, r2 \in Entered :
        /\ req[r1].ops = <<>> /\ req[r1].replies # <<>>
        /\ req[r2].handler = "download_info" /\ req[r2].pc = "done"
        /\ req[r2].error = 0
        /\ req[r2].replies = <<Reply(500)>>

\* ------------------------------------------------ claims on embed flags
\* the query asks for an embedded time stamp
AsksEmbed(query) == query.embed \/ query.embed_timestamp

\* get r2 read, whole and after upload r1 had completed, the object r1
\* wrote in full
ReadsUploadOf(r2, r1) ==
    /\ req[r1].handler = "upload" /\ req[r1].pc = "done" /\ req[r1].error = 0
    /\ req[r1].ops # <<>> /\ req[r1].ops[1].op = "write_data"
    /\ req[r1].ops[1].offset = 0
    /\ r1 \in req[r2].after
    /\ r2 \in WholeGets
    /\ req[r2].swr[1].group \in DOMAIN req[r1].statuses
    /\ req[r1].statuses[req[r2].swr[1].group] = 0

\* C23: an upload writes with the embeds user flag exactly when its query
\* has embed or embed_timestamp; a later get of the object without an embed
\* flag in its query still unpacks with embeds, because the flag of the
\* stored object is OR-ed with the query's: it answers the payload that was
\* uploaded and a Last-Modified of the uploaded time stamp (the timestamp
\* parameter, 0 by default)
C23_EmbedFlagPropagates ==
    /\ \A r \in DispatchedUploads :
           has_UF_EMBEDS(req[r].ops[1].user_flags) <=> AsksEmbed(req[r].in.query)
    /\ \A r1, r2 \in Req :
           (/\ ReadsUploadOf(r2, r1)
            /\ AsksEmbed(req[r1].in.query)
            /\ ~AsksEmbed(req[r2].in.query)
            /\ req[r2].in.if_modified_since = <<>>) =>
               /\ has_UF_EMBEDS(req[r2].swr[1].user_flags)
               /\ req[r2].replies =
                      <<[Reply(200) EXCEPT
                           !.body = req[r1].in.buffer,
                           !.last_modified =
                               http_date(get_arg(req[r1].in.query.timestamp, 0).val)]>>

\* an upload with embed_timestamp and no timestamp parameter, then a get
\* without embed flags that answers the payload and the date of time 0
C23_Witness ==
    \E r1, r2 \in Req :
        /\ ReadsUploadOf(r2, r1)
        /\ req[r1].in.query.embed_timestamp /\ ~req[r1].in.query.timestamp.present
        /\ ~AsksEmbed(req[r2].in.query)
        /\ Len(req[r1].in.buffer) = 4
        /\ req[r2].replies[1].body = req[r1].in.buffer
        /\ req[r2].replies[1].last_modified = http_date(0)

AsksPlain(query) == query.plain_write \/ has_item(query, "plain-write")

\* C25: the write of a dispatched upload is a prepare write with the size of
\* prepare when prepare is given; else a commit write with the size of commit
\* when commit is given; else a plain write when plain_write or plain-write
\* is given; else a full write; its offset is the offset parameter, 0 by
\* default; and a dispatched upload has issued exactly one write
C25_WriteMode ==
    \A r \in Req :
        req[r].handler = "upload" =>
            /\ Len(req[r].ops) <= 1
            /\ req[r].pc = "dispatched" => Len(req[r].ops) = 1
            /\ req[r].ops # <<>> =>
                   LET op == req[r].ops[1]
                       query == req[r].in.query
                   IN /\ query.prepare.present =>
                             op.op = "write_prepare" /\ op.size = query.prepare.val
                      /\ (~query.prepare.present /\ query.commit.present) =>
                             op.op = "write_commit" /\ op.size = query.commit.val
                      /\ (~query.prepare.present /\ ~query.commit.present
                             /\ AsksPlain(query)) => op.op = "write_plain"
                      /\ (~query.prepare.present /\ ~query.commit.present
                             /\ ~AsksPlain(query)) => op.op = "write_data"
                      /\ op.offset = IF query.offset.present THEN query.offset.val ELSE 0

\* two dispatched uploads: one with prepare, commit and plain_write at
\* offset 1, which is a prepare write, and one with commit and plain-write
\* at the default offset, which is a commit write
C25_Witness ==
    \E r1, r2 \in DispatchedUploads :
        /\ req[r1].in.query.prepare = NumArg(2) /\ req[r1].in.query.commit = NumArg(3)
        /\ req[r1].in.query.plain_write
        /\ req[r1].ops = <<[req[r1].ops[1] EXCEPT !.op = "write_prepare", !.size = 2,
                                                   !.offset = 1]>>
        /\ ~req[r2].in.query.prepare.present /\ req[r2].in.query.commit = NumArg(3)
        /\ has_item(req[r2].in.query, "plain-write")
        /\ req[r2].ops[1].op = "write_commit" /\ req[r2].ops[1].size = 3
        /\ req[r2].ops[1].offset = 0

\* ------------------------------------------------ claims on reverse lookups
\* C26: when the reverse lookup of the host of the first lookup entry without
\* an error fails, download-info answers 500 and nothing else: no document
\* with the numeric address, none rendered from another entry
C26_DnsFailure500 ==
    \A r \in LookedUp :
        \A i \in 1..Len(req[r].swr) :
            (UpToFirstGood(r, i) /\ ~req[r].dns[req[r].swr[i].group]) =>
                req[r].replies = <<Reply(500)>>

\* the second entry is the first without an error and the name of its node
\* does not resolve, while the name of the first entry's node would
C26_Witness ==
    \E r \in LookedUp :
        /\ Len(req[r].swr) = 2
        /\ req[r].swr[1].status # 0
        /\ UpToFirstGood(r, 2)
        /\ ~req[r].dns[req[r].swr[2].group]
        /\ req[r].dns[req[r].swr[1].group]
        /\ req[r].replies[1].code = 500

\* ------------------------------------------------ claims on lookup results
\* the lookup results in use
LookupResultsInUse ==
    {r \in Req : req[r].handler = "lookup_result" /\ req[r].pc = "parsed"}

\* C28: every successful call of host, port, addr, path or full_path returns
\* what the first successful call of that accessor returned; what an accessor
\* returns comes from the entry alone (for host, the resolved name and the
\* sign port), whichever other accessors were called before; a call of host
\* fails only when nothing is memoised and the name does not resolve, it
\* leaves nothing memoised, and a later call resolves again
C28_AccessorsIdempotent ==
    \A r \in LookupResultsInUse :
        LET g == req[r].pl
            e == g.self.m_entry
        IN /\ (g.last.acc # "none" /\ ~g.last.throws) =>
                  g.last.val = g.first[g.last.acc]
           /\ g.first["port"] \in {<<>>, <<e.port>>}
           /\ g.first["addr"] \in {<<>>, <<<<e.node, ":", e.port>>>>}
           /\ g.first["path"] \in {<<>>, <<<<e.file, ":", e.offset, ":", e.size>>>>}
           /\ g.first["full_path"] \in {<<>>, <<e.file>>}
           /\ g.first["host"] \in
                  {<<>>} \cup
                  {<<n \o (IF g.self.m_sign_port # "" THEN <<":", g.self.m_sign_port>>
                           ELSE <<>>)>> : n \in Resolved \ {<<>>}}
           /\ (g.last.acc = "host" /\ g.last.throws) =>
                  /\ g.self.m_host = <<>> /\ g.first["host"] = <<>>
                  /\ g.last.resolved = <<>>
           /\ (g.last.acc = "host" /\ g.last.resolved # <<>>) => ~g.last.throws
           /\ (g.last.acc = "host" /\ g.first["host"] = <<>>) => g.last.throws

\* host failed, then resolved to n1, and a later call, made after the other
\* accessors and while the node resolves to n2, still returns n1
C28_Witness ==
    \E r \in LookupResultsInUse :
        LET g == req[r].pl
        IN /\ g.failed
           /\ g.self.m_sign_port = "80"
           /\ \A a \in Accessors : Len(g.first[a]) = 1
           /\ g.last.acc = "host" /\ ~g.last.throws
           /\ g.last.resolved = <<"n2">>
           /\ g.last.val = <<<<"n1", ":", "80">>>>

====
